---- MODULE Spec2Model ----
(***************************************************************************)
(* CodeGraph: the single-file analysis of src/extension.ts                 *)
(* (analyzeTypeScriptWithTypes and the extractors it calls).               *)
(*                                                                         *)
(* The syntax tree is a sequence of node records in pre-order (node 1 is   *)
(* the SourceFile); the TypeScript binder and checker are modelled by the  *)
(* operators of the "checker" section, which answer the queries the code   *)
(* makes (getSymbolAtLocation, getResolvedSignature, getTypeAtLocation).   *)
(* Strings are real strings: ids and keys are built by concatenation as    *)
(* the template literals of the code build them.                           *)
(***************************************************************************)
EXTENDS Integers, Sequences, FiniteSets, TLC

VARIABLES
  fileName,     \* args.fileName, the name of the analyzed file
  languageId,   \* args.languageId, the editor's language of the document
  scriptKind,   \* const scriptKind, the dialect the text is parsed in
  sf,           \* program.getSourceFile(...): a tree, or NoTree (undefined)
  pc,           \* position inside analyzeTypeScriptWithTypes
  imports,      \* const imports
  exports,      \* const exports
  map,          \* extractCallsResolved: the insertion-ordered Map, as a sequence
  calls,        \* const calls
  nodes,        \* buildActiveFileGraph: nodes
  edges,        \* buildActiveFileGraph: edges
  idByDeclPos,  \* buildActiveFileGraph: declStartPos -> nodeId
  edgeKey,      \* buildActiveFileGraph: the Set of edge keys
  result,       \* the value returned to the caller, or NoResult
  thrown,       \* an exception left analyzeTypeScriptWithTypes
  run,          \* number of the current invocation
  prev,         \* the value returned by the previous invocation
  \* the extension host of one panel (activate)
  lastTextEditor,    \* let lastTextEditor: the document of the editor, or NoEditor
  lastSelection,     \* let lastSelection, or NoSelection
  activeTextEditor,  \* vscode.window.activeTextEditor
  docText,           \* document.getText() of every open document
  analysisTimer,     \* let analysisTimer: the handle armed last, 0 for undefined
  timers,            \* the timers of setTimeout that have neither run nor been cleared
  disposed,          \* the panel has been disposed
  event,             \* the handler of the host that ran last
  posted,            \* the messages that handler passed to panel.webview.postMessage
  analyzed,          \* the texts that handler passed to analyzeTypeScriptWithTypes
  \* the webview of the panel (App)
  activeFile,        \* useState: activeFile
  selection,         \* useState: selection
  analysis,          \* useState: analysis
  selectedNodeId     \* useState: selectedNodeId

analysisVars ==
  <<fileName, languageId, scriptKind, sf, pc, imports, exports, map, calls, nodes,
    edges, idByDeclPos, edgeKey, result, thrown, run, prev>>

hostVars ==
  <<lastTextEditor, lastSelection, activeTextEditor, docText, analysisTimer,
    timers, disposed, event, posted, analyzed>>

webVars == <<activeFile, selection, analysis, selectedNodeId>>

vars == <<analysisVars, hostVars, webVars>>

----------------------------------------------------------------------------
(* Bounds of the model *)

\* most top-level statements of an analyzed file
MaxStmts == 2

\* most invocations of the analysis on one input
MaxRuns == 2

\* how far the number of distinct callees of a bulk file exceeds the cap
MaxOver == 2

(* Program constants *)

\* .slice(0, 60)
MaxCalls == 60

\* clampText(paramName, 60)
ParamClamp == 60

\* clampText(argText, 80), and the default of clampText
ArgClamp == 80

----------------------------------------------------------------------------
(* Values *)

NoTree == <<>>
NoResult == [none |-> TRUE]

\* null, where the code has a string or null
Null == "<null>"

\* null, where the code has a number or null
NullPos == 0 - 1

\* a file of the TypeScript standard library (ambient declarations)
LibFile == "/w/node_modules/typescript/lib/lib.es5.d.ts"

\* no declaration
NoDecl == [file |-> "", tree |-> 0, pos |-> NullPos, end |-> NullPos]

\* a declaration of the ambient library
LibDecl == [file |-> LibFile, tree |-> 0, pos |-> 4242, end |-> 4300]

----------------------------------------------------------------------------
(* The syntax tree *)

\* the receiver of a member access: its source text, the name of the symbol
\* of its type ("" when the type has none) and typeToString of its type
Type(text, sym, str) == [text |-> text, sym |-> sym, str |-> str]
NoType == Type("", "", "")

\* the import clause of an ImportDeclaration
Imp(clause, name, bindings, nsName, elements) ==
  [clause |-> clause, name |-> name, bindings |-> bindings,
   nsName |-> nsName, elements |-> elements]
NoImp == Imp(FALSE, "", "", "", <<>>)

\* a node with every field at its default
Node(kind, name) ==
  [kind |-> kind, parent |-> 0, slot |-> "child", name |-> name,
   body |-> FALSE, form |-> "", recv |-> NoType,
   args |-> <<>>, params |-> <<>>, fault |-> "none",
   nameKind |-> "Identifier", exported |-> FALSE, default |-> FALSE,
   imp |-> NoImp]

Arg(text, type) == [text |-> text, type |-> type]
Param(name, type) == [name |-> name, type |-> type]

\* a fragment is a sequence of nodes whose parents are relative to the
\* fragment (0: the node the fragment will be attached to)

\* the top nodes of a fragment, marked as held by property `slot` of the parent
Mark(frag, slot) ==
  [j \in 1..Len(frag) |->
     IF frag[j].parent = 0 THEN [frag[j] EXCEPT !.slot = slot] ELSE frag[j]]

\* a fragment placed after `base` nodes, attached to node `par`
Place(frag, base, par) ==
  [j \in 1..Len(frag) |->
     IF frag[j].parent = 0
       THEN [frag[j] EXCEPT !.parent = par]
       ELSE [frag[j] EXCEPT !.parent = @ + base]]

RECURSIVE Join(_, _, _)
\* the fragments one after the other, placed after `base` nodes and attached
\* to node `par`
Join(frags, base, par) ==
  IF frags = <<>> THEN <<>>
  ELSE IF Len(frags) = 1 THEN Place(frags[1], base, par)
  ELSE LET half == Len(frags) \div 2
           left == Join(SubSeq(frags, 1, half), base, par)
       IN left \o Join(SubSeq(frags, half + 1, Len(frags)), base + Len(left), par)

\* the fragments one after the other, as one fragment
Cat(frags) == Join(frags, 0, 0)

\* a head node with the fragment `inner` as its children
Under(head, inner) == <<head>> \o Place(inner, 1, 1)

\* the tree of a file made of the given top-level statements
FileOf(stmts) ==
  <<Node("SourceFile", "")>> \o Join(stmts, 1, 1)

(* statement shapes *)

CallId(name, args) ==
  [Node("CallExpression", name) EXCEPT !.form = "ident", !.args = args]

CallMember(recv, method, args) ==
  [Node("CallExpression", method) EXCEPT
     !.form = "member", !.recv = recv, !.args = args]

NewId(name, args) ==
  [Node("NewExpression", name) EXCEPT !.form = "ident", !.args = args]

FunDecl(name, params, hasBody) ==
  [Node("FunctionDeclaration", name) EXCEPT !.params = params, !.body = hasBody]

Method(name, params) ==
  [Node("MethodDeclaration", name) EXCEPT !.params = params, !.body = TRUE]

Ctor(params) ==
  [Node("Constructor", "") EXCEPT !.params = params, !.body = TRUE]

ClassDecl(name) == Node("ClassDeclaration", name)

A0 == Arg("2", "number")
A1 == Arg("x", "number")
P0 == Param("a", "number")
P1 == Param("b", "number")

\* f(2, x)
sCallF == <<CallId("f", <<A0, A1>>)>>
\* g(f(2, x))
sCallGF == Under(CallId("g", <<Arg("f(2, x)", "number")>>), sCallF)
\* u(2): no declaration anywhere
sCallU == <<CallId("u", <<A0>>)>>
\* parseInt(x): declared in the ambient library
sCallExt == <<CallId("parseInt", <<A1>>)>>
\* c.m(2), c of type A
sCallM == <<CallMember(Type("c", "A", "A"), "m", <<A0>>)>>
\* new A(2)
sNewA == <<NewId("A", <<A0>>)>>
\* f(2, x) at which the checker throws
sCallBad == <<[CallId("f", <<A0, A1>>) EXCEPT !.fault = "resolve"]>>
\* export function f(a, b) {}
sFunF == <<[FunDecl("f", <<P0, P1>>, TRUE) EXCEPT !.exported = TRUE]>>
\* function f(a, b) { f(2, x); f(2, x) }
sFunFrec ==
  Under(FunDecl("f", <<P0, P1>>, TRUE), Mark(Cat(<<sCallF, sCallF>>), "body"))
\* function f(a);     an overload signature
sSigF == <<FunDecl("f", <<P0>>, FALSE)>>
\* function g(a = f(2, x)) { function f(a) {} f(2, x) }
sFunG ==
  Under(FunDecl("g", <<P0>>, TRUE),
        Cat(<<Mark(sCallF, "param"),
              Mark(<<FunDecl("f", <<P0>>, TRUE)>>, "body"),
              Mark(sCallF, "body")>>))
\* class A { m(a) { f(2, x); new A(2) } }
sClassA ==
  Under(ClassDecl("A"),
        Under(Method("m", <<P0>>), Mark(Cat(<<sCallF, sNewA>>), "body")))
\* class A { constructor(a) {} m(a) { c.m(2) } }
sClassActor ==
  Under(ClassDecl("A"),
        Cat(<<<<Ctor(<<P0>>)>>,
              Under(Method("m", <<P0>>), Mark(sCallM, "body"))>>))

\* function h(a, a) { h(2, 2) }
sFunDup ==
  Under(FunDecl("h", <<P0, P0>>, TRUE),
        Mark(<<CallId("h", <<A0, A0>>)>>, "body"))

\* function f(a); function f(a, b) {}  f(2)
sOverF ==
  Cat(<<<<FunDecl("f", <<P0>>, FALSE)>>, <<FunDecl("f", <<P0, P1>>, TRUE)>>,
        <<CallId("f", <<A0>>)>>>>)

\* j.run(2), j of type any
sCallAny == <<CallMember(Type("j", "", "any"), "run", <<A0>>)>>

\* import fs from "fs"
sImport ==
  <<[Node("ImportDeclaration", "fs") EXCEPT !.imp = Imp(TRUE, "fs", "", "", <<>>)]>>

\* the import and export declarations a file is made of
ModuleStmts ==
  LET ModuleDecl(kind, source, clause) ==
        <<[Node(kind, source) EXCEPT !.imp = clause]>>
  IN
  {sImport,
   \* import "./p"
   ModuleDecl("ImportDeclaration", "./p", NoImp),
   \* import * as ns from "m1"
   ModuleDecl("ImportDeclaration", "m1", Imp(TRUE, "", "namespace", "ns", <<>>)),
   \* import d, * as ns from "m2"
   ModuleDecl("ImportDeclaration", "m2", Imp(TRUE, "d", "namespace", "ns", <<>>)),
   \* import { a, b as c } from "m3"
   ModuleDecl("ImportDeclaration", "m3",
              Imp(TRUE, "", "named", "",
                  <<[propertyName |-> "", name |-> "a"],
                    [propertyName |-> "b", name |-> "c"]>>)),
   \* import d, { a } from "m4"
   ModuleDecl("ImportDeclaration", "m4",
              Imp(TRUE, "d", "named", "", <<[propertyName |-> "", name |-> "a"]>>)),
   \* export * from "x1"
   ModuleDecl("ExportDeclaration", "x1", NoImp),
   \* export { a as b } from "x2"
   ModuleDecl("ExportDeclaration", "x2",
              Imp(TRUE, "", "named", "", <<[propertyName |-> "a", name |-> "b"]>>)),
   \* export * as ns from "x3"
   ModuleDecl("ExportDeclaration", "x3", Imp(TRUE, "", "namespace", "ns", <<>>)),
   \* export { a }
   ModuleDecl("ExportDeclaration", "",
              Imp(TRUE, "", "named", "", <<[propertyName |-> "", name |-> "a"]>>))}

\* the files made of one or two import and export declarations
ModuleTrees ==
  {FileOf(<<a>>) : a \in ModuleStmts}
    \cup {FileOf(<<a, b>>) : a \in ModuleStmts, b \in ModuleStmts}

\* the statements a file is made of
Stmts ==
  {sCallF, sCallGF, sCallU, sCallExt, sCallM, sNewA, sCallBad,
   sFunF, sFunFrec, sSigF, sFunG, sClassA, sClassActor, sImport}

\* the statement lists of at most n statements
RECURSIVE StmtLists(_)
StmtLists(n) ==
  IF n = 0 THEN {<<>>}
  ELSE LET shorter == StmtLists(n - 1)
       IN shorter \cup {<<s>> \o l : s \in Stmts, l \in {x \in shorter : Len(x) = n - 1}}

SmallTrees == {FileOf(l) : l \in StmtLists(MaxStmts)}

\* the files that hold a call with equal labels, a call of an overloaded
\* function or a call on a receiver of type any, alone or before one statement
MemberTrees ==
  {FileOf(<<a>> \o l) : a \in {sFunDup, sOverF, sCallAny}, l \in StmtLists(1)}

\* the files that hold a call in a constructor, in an arrow function or in
\* an arrow function of a function body, alone or before one statement
OwnerTrees ==
  LET \* class B { constructor(a) { f(2, x) } }
      sCtorB == Under(ClassDecl("B"),
                      Under(Ctor(<<P0>>), Mark(sCallF, "body")))
      \* () => f(2, x)
      sArrow == Under(Node("ArrowFunction", ""), Mark(sCallF, "body"))
      \* function k(a) { () => f(2, x) }
      sFunK == Under(FunDecl("k", <<P0>>, TRUE), Mark(sArrow, "body"))
  IN {FileOf(<<a>> \o l) : a \in {sCtorB, sArrow, sFunK}, l \in StmtLists(1)}

\* the files whose dataflow labels hold a text of several lines, an argument
\* longer than the clamp of an argument or a parameter name longer than the
\* clamp of a parameter name
LabelTrees ==
  LET d == "0123456789"
      \* a numeric literal of 90 digits
      long == d \o d \o d \o d \o d \o d \o d \o d \o d
      \* an identifier of 71 characters
      longName == "p" \o d \o d \o d \o d \o d \o d \o d
      \* f(x  +\n 2, <long>)
      sCallLong == <<CallId("f", <<Arg("x  +\n 2", "number"), Arg(long, "number")>>)>>
      \* f(x  +\n 2, <long>), the types failing to print
      sCallLongBad ==
        <<[CallId("f", <<Arg("x  +\n 2", "number"), Arg(long, "number")>>)
             EXCEPT !.fault = "typestr"]>>
      \* function h(<longName>) {}
      sFunLong == <<FunDecl("h", <<Param(longName, "number")>>, TRUE)>>
      \* h(2)
      sCallH == <<CallId("h", <<A0>>)>>
  IN {FileOf(<<sFunF, sCallLong>>), FileOf(<<sFunF, sCallLongBad>>),
      FileOf(<<sFunLong, sCallH>>)}

\* n calls u1(), ..., un() of n different undeclared names, then r more calls
\* of the last r of these names
BulkStmts(n, r) ==
  [k \in 1..(n + r) |->
     <<CallId("u" \o ToString(IF k <= n THEN k ELSE 2 * n + 1 - k), <<>>)>>]

\* files with about as many different callees as the calls list may hold
BulkTrees ==
  {FileOf(l \o BulkStmts(n, r)) :
     l \in StmtLists(1), n \in (MaxCalls - 1)..(MaxCalls + MaxOver), r \in 0..MaxOver}

(* navigation *)

Idx(t) == 1..Len(t)

RECURSIVE IsAncestor(_, _, _)
\* a is a proper ancestor of i
IsAncestor(t, a, i) ==
  IF i = 0 \/ t[i].parent = 0 THEN FALSE
  ELSE t[i].parent = a \/ IsAncestor(t, a, t[i].parent)

Children(t, i) == {j \in Idx(t) : t[j].parent = i}

\* the last node of the subtree of i (pre-order: the subtree is i..LastOf)
LastOf(t, i) ==
  LET below == {j \in Idx(t) : IsAncestor(t, i, j)}
  IN IF below = {} THEN i ELSE CHOOSE m \in below : \A j \in below : j <= m

\* node.getStart(sf, false): the offset of the first token
Pos(t, i) == IF i = 1 THEN 0 ELSE 2 * (i - 2)

\* node.getEnd()
End(t, i) == IF Len(t) = 1 THEN 0 ELSE 2 * (LastOf(t, i) - 2) + 1

\* sf.getLineAndCharacterOfPosition (the text is taken to be one line)
LineAndCharacter(p) == [line |-> 0, character |-> p]

RangeOf(start, end) ==
  [start |-> LineAndCharacter(start), end |-> LineAndCharacter(end)]

RECURSIVE LastSlash(_, _)
LastSlash(s, i) ==
  IF i = 0 THEN 0
  ELSE IF SubSeq(s, i, i) = "/" THEN i ELSE LastSlash(s, i - 1)

\* path.basename
Basename(s) == SubSeq(s, LastSlash(s, Len(s)) + 1, Len(s))

----------------------------------------------------------------------------
(* The binder and the checker of TypeScript, as far as the code queries them *)

FunctionLike == {"FunctionDeclaration", "MethodDeclaration", "Constructor"}

RECURSIVE Container(_, _)
\* the function or file whose locals a node is looked up in first; the
\* initializer of a parameter does not see the locals of the function body
Container(t, i) ==
  IF i = 1 THEN 1
  ELSE LET p == t[i].parent
       IN IF p = 1 THEN p
          ELSE IF t[p].kind \in FunctionLike
            THEN IF t[i].slot = "param" THEN Container(t, p) ELSE p
          ELSE Container(t, p)

\* the elements of a set of numbers, ascending
Ascending(S) ==
  [r \in 1..Cardinality(S) |->
     CHOOSE x \in S : Cardinality({y \in S : y < x}) = r - 1]

\* a declaration of the analyzed file
Decl(t, d) == [file |-> fileName, tree |-> d, pos |-> Pos(t, d), end |-> End(t, d)]

\* values declared by the ambient library
LibNames == {"parseInt"}

RECURSIVE Lookup(_, _, _)
\* the declarations (node indices, in source order) a name resolves to from
\* inside container c: functions of one scope merge, a second class does not
Lookup(t, name, c) ==
  LET here == {d \in Idx(t) : /\ t[d].kind \in {"FunctionDeclaration", "ClassDeclaration"}
                              /\ t[d].name = name
                              /\ Container(t, d) = c}
      first == CHOOSE d \in here : \A e \in here : d <= e
  IN IF here # {}
       THEN Ascending({d \in here : t[d].kind = t[first].kind})
            \* a class after the first of its name gets a symbol of its own
            \* that no name refers to
       ELSE IF c = 1 THEN <<>> ELSE Lookup(t, name, Container(t, c))

\* the first of the declarations ds when it declares a class, or 0
FirstClass(t, ds) ==
  IF ds # <<>> /\ t[ds[1]].kind = "ClassDeclaration" THEN ds[1] ELSE 0

\* the first class declaration the receiver type's symbol names, or 0
ClassOf(t, i, name) == FirstClass(t, Lookup(t, name, Container(t, i)))

\* the declarations at the node indices ds
DeclsAt(t, ds) == [k \in 1..Len(ds) |-> Decl(t, ds[k])]

\* the declarations of an identifier that the file declares at ds: the
\* library's when the file declares none
IdentifierDecls(t, name, ds) ==
  IF ds # <<>> THEN DeclsAt(t, ds)
  ELSE IF name \in LibNames THEN <<LibDecl>> ELSE <<>>

\* the declarations of the method called name in class c (0: no class)
MemberDecls(t, c, name) ==
  IF c = 0 THEN <<>>
  ELSE DeclsAt(t, Ascending({m \in Children(t, c) :
                               /\ t[m].kind = "MethodDeclaration"
                               /\ t[m].name = name}))

\* checker.getSymbolAtLocation(call.expression), as its declarations;
\* <<>> when there is no symbol
SymbolDecls(t, i) ==
  IF t[i].form = "ident"
    THEN IdentifierDecls(t, t[i].name, Lookup(t, t[i].name, Container(t, i)))
    ELSE MemberDecls(t, ClassOf(t, i, t[i].recv.sym), t[i].name)

\* getSignaturesOfSymbol: an implementation that directly follows another
\* declaration of the symbol is hidden by it
Signatures(t, ds) ==
  SelectSeq(ds, LAMBDA d :
    ~ \E e \in 1..Len(ds) :
        /\ ds[e].tree # 0 /\ d.tree # 0 /\ ds[e].tree < d.tree
        /\ t[d.tree].body
        /\ t[ds[e].tree].parent = t[d.tree].parent
        /\ LastOf(t, ds[e].tree) + 1 = d.tree)

\* the signature overload resolution settles on: the first one that takes
\* the arguments, else the last candidate
Resolve(t, sigs, nargs) ==
  LET ok == {k \in 1..Len(sigs) :
               sigs[k].tree = 0 \/ Len(t[sigs[k].tree].params) >= nargs}
  IN IF sigs = <<>> THEN NoDecl
     ELSE IF ok = {} THEN sigs[Len(sigs)]
     ELSE sigs[CHOOSE k \in ok : \A j \in ok : k <= j]

\* the declarations among ds that have call signatures
Callable(t, ds) ==
  SelectSeq(ds, LAMBDA d : d.tree = 0 \/ t[d.tree].kind \in FunctionLike)

\* checker.getResolvedSignature(call)?.getDeclaration()
ResolvedSignatureDecl(t, i) ==
  Resolve(t, Signatures(t, Callable(t, SymbolDecls(t, i))), Len(t[i].args))

\* the first constructor declared in class c (0: no class), or NoDecl
FirstConstructor(t, c) ==
  LET ctors == {k \in Children(t, c) : t[k].kind = "Constructor"}
  IN IF c = 0 \/ ctors = {} THEN NoDecl
     ELSE Decl(t, CHOOSE k \in ctors : \A j \in ctors : k <= j)

\* checker.getTypeAtLocation(newExpr.expression).getConstructSignatures()[0]
\*   ?.getDeclaration(): the first constructor of the class; the default
\* constructor of a class without one has no declaration
ConstructSignatureDecl(t, i) ==
  IF t[i].form = "ident" THEN FirstConstructor(t, ClassOf(t, i, t[i].name))
  ELSE NoDecl

\* the checker throws while it resolves the call or construction
CheckerThrows(t, i) == t[i].fault = "resolve"
----------------------------------------------------------------------------
(* Helpers of the analysis *)

RECURSIVE Contains(_, _, _)
\* s.includes(sub), searched from index i
Contains(s, sub, i) ==
  IF i + Len(sub) - 1 > Len(s) THEN FALSE
  ELSE SubSeq(s, i, i + Len(sub) - 1) = sub \/ Contains(s, sub, i + 1)

RECURSIVE SlashNorm(_)
\* fileName.replace(/\\/g, "/")
SlashNorm(s) ==
  IF s = "" THEN ""
  ELSE (IF SubSeq(s, 1, 1) = "\\" THEN "/" ELSE SubSeq(s, 1, 1))
         \o SlashNorm(SubSeq(s, 2, Len(s)))

isExternalFile(f) ==
  LET norm == SlashNorm(f)
  IN Contains(norm, "/node_modules/", 1) \/ Contains(norm, "/typescript/lib/", 1)

declLocation(d) ==
  [fileName |-> d.file, pos |-> d.pos, range |-> RangeOf(d.pos, d.end)]

\* the kinds pickBestDeclaration looks for
ImplKinds ==
  {"MethodDeclaration", "FunctionDeclaration", "FunctionExpression",
   "ClassDeclaration", "InterfaceDeclaration"}

\* the kind of a declaration (parseInt is a function declaration of the library)
KindOfDecl(t, d) == IF d.tree = 0 THEN "FunctionDeclaration" ELSE t[d.tree].kind

\* decls.find(...) ?? decls[0], NoDecl for undefined
pickBestDeclaration(t, ds) ==
  LET impl == {k \in 1..Len(ds) : KindOfDecl(t, ds[k]) \in ImplKinds}
  IN IF ds = <<>> THEN NoDecl
     ELSE IF impl # {} THEN ds[CHOOSE k \in impl : \A j \in impl : k <= j]
     ELSE ds[1]

friendlyTypeName(ty) ==
  IF ty.sym # "" /\ ty.sym # "__type" THEN ty.sym ELSE ty.str

normalizeCalleeName(t, i) ==
  IF t[i].form = "ident" THEN t[i].name
  ELSE LET recvTypeName == friendlyTypeName(t[i].recv)
       IN IF recvTypeName # ""
            THEN recvTypeName \o "." \o t[i].name
            ELSE t[i].recv.text \o "." \o t[i].name

normalizeCtorName(t, i) ==
  IF t[i].form = "ident" THEN t[i].name
  ELSE LET name == friendlyTypeName(t[i].recv)
       IN IF name # "" THEN name ELSE t[i].recv.text \o "." \o t[i].name

\* declFromSig ?? declFromSym
FirstDecl(a, b) == IF a # NoDecl THEN a ELSE b

\* an item that takes what has no declaration for external
CallItemGuess(calleeName, decl) ==
  [calleeName |-> calleeName,
   count |-> 1,
   declFile |-> IF decl # NoDecl THEN declLocation(decl).fileName ELSE Null,
   declRange |-> IF decl # NoDecl THEN declLocation(decl).range
                 ELSE RangeOf(NullPos, NullPos),
   isExternal |-> IF decl # NoDecl THEN isExternalFile(declLocation(decl).fileName)
                  ELSE TRUE,
   declPos |-> IF decl # NoDecl THEN declLocation(decl).pos ELSE NullPos]

CallItem(calleeName, decl) ==
  [calleeName |-> calleeName,
   count |-> 1,
   declFile |-> IF decl # NoDecl THEN declLocation(decl).fileName ELSE Null,
   declRange |-> IF decl # NoDecl THEN declLocation(decl).range
                 ELSE RangeOf(NullPos, NullPos),
   isExternal |-> IF decl # NoDecl THEN isExternalFile(declLocation(decl).fileName)
                  ELSE FALSE,
   declPos |-> IF decl # NoDecl THEN declLocation(decl).pos ELSE NullPos]

resolveCallToDeclaration(t, i) ==
  CallItem(normalizeCalleeName(t, i),
           FirstDecl(ResolvedSignatureDecl(t, i),
                     pickBestDeclaration(t, SymbolDecls(t, i))))

resolveNewToDeclaration(t, i) ==
  CallItem("new " \o normalizeCtorName(t, i),
           FirstDecl(ConstructSignatureDecl(t, i),
                     pickBestDeclaration(t, SymbolDecls(t, i))))

----------------------------------------------------------------------------
(* extractCallsResolved *)

\* new Map()
NewMap == <<>>

\* a key that leaves the declaration position out
CallKeyNoPos(item) ==
  item.calleeName \o "@@"
    \o (IF item.declFile = Null THEN "null" ELSE item.declFile)

\* the key of bump
CallKey(item) ==
  item.calleeName \o "@@"
    \o (IF item.declFile = Null THEN "null" ELSE item.declFile) \o "@@"
    \o (IF item.declPos = NullPos THEN "null" ELSE ToString(item.declPos))

\* a bump that leaves the count of a key it has seen as it is
bumpOnce(m, item) ==
  IF \E k \in 1..Len(m) : m[k].key = CallKey(item) THEN m
  ELSE Append(m, [key |-> CallKey(item), calleeName |-> item.calleeName,
                  count |-> 1, declFile |-> item.declFile,
                  declRange |-> item.declRange, isExternal |-> item.isExternal,
                  declPos |-> item.declPos])

bump(m, item) ==
  LET key == CallKey(item)
      at == {k \in 1..Len(m) : m[k].key = key}
  IN IF at # {}
       THEN [m EXCEPT ![CHOOSE k \in at : TRUE].count = @ + 1]
       ELSE Append(m, [key |-> key, calleeName |-> item.calleeName, count |-> 1,
                       declFile |-> item.declFile, declRange |-> item.declRange,
                       isExternal |-> item.isExternal, declPos |-> item.declPos])

\* what visit does at node i, before it goes on to the children
visitNode(t, i, m) ==
  IF t[i].kind = "CallExpression"
    THEN bump(m, resolveCallToDeclaration(t, i))
  ELSE IF t[i].kind = "NewExpression"
    THEN bump(m, resolveNewToDeclaration(t, i))
  ELSE m

RECURSIVE visit(_, _, _, _)
RECURSIVE visitFrom(_, _, _, _)

\* visit goes on at node lo with the Map m that the nodes before lo have left
visitFrom(t, lo, hi, m) == IF Len(m) >= 0 THEN visit(t, lo, hi, m) ELSE m

\* visit(sf), over the nodes lo..hi in pre-order: the first half of them,
\* then the second half
visit(t, lo, hi, m) ==
  IF lo > hi THEN m
  ELSE IF lo = hi THEN visitNode(t, lo, m)
  ELSE visitFrom(t, (lo + hi) \div 2 + 1, hi,
                 visit(t, lo, (lo + hi) \div 2, m))

\* .map(({ _declPos, ...rest }) => rest)
Rest(e) ==
  [calleeName |-> e.calleeName, count |-> e.count, declFile |-> e.declFile,
   declRange |-> e.declRange, isExternal |-> e.isExternal]

\* the same for a sort that puts the later of two equal counts first
BeforeLastSeen(s, k) ==
  Cardinality({j \in 1..Len(s) :
                 \/ s[j].count > s[k].count
                 \/ s[j].count = s[k].count /\ j > k})

\* the number of entries of s that a stable descending sort puts before s[k]
Before(s, k) ==
  Cardinality({j \in 1..Len(s) :
                 \/ s[j].count > s[k].count
                 \/ s[j].count = s[k].count /\ j < k})

\* .sort((a, b) => b.count - a.count): descending and stable
SortByCount(s) ==
  [r \in 1..Len(s) |-> s[CHOOSE k \in 1..Len(s) : Before(s, k) = r - 1]]

\* .slice(0, 60)
Slice(s) == SubSeq(s, 1, IF Len(s) < MaxCalls THEN Len(s) ELSE MaxCalls)

\* the chain with .slice(0, 60) before .sort(...)
CallsOfCapFirst(m) == SortByCount(Slice([k \in 1..Len(m) |-> Rest(m[k])]))

\* the list extractCallsResolved returns for the Map it has built
CallsOf(m) == Slice(SortByCount([k \in 1..Len(m) |-> Rest(m[k])]))

\* the call and construction expressions of the tree
CallSites(t) ==
  {i \in Idx(t) : t[i].kind \in {"CallExpression", "NewExpression"}}
----------------------------------------------------------------------------
(* buildActiveFileGraph *)

\* const nodes = [], const edges = []
NewList == <<>>

\* new Map<number, string>()
NewIdMap == <<>>

\* a key set that outlives the call that filled it
StaleEdgeKey == edgeKey

\* new Set<string>()
NewEdgeKey == {}

\* an id that leaves the start offset out
mkIdNoPos(kind, name, pos) == kind \o ":" \o name

mkId(kind, name, pos) == kind \o ":" \o name \o "@" \o ToString(pos)

\* idByDeclPos.get(pos), "" for undefined
Get(m, pos) == IF pos \in DOMAIN m THEN m[pos] ELSE ""

\* idByDeclPos.set(pos, id)
Set(m, pos, id) == (pos :> id) @@ m

sourceFileRange(t) == RangeOf(0, End(t, 1))

fileNodeId == mkId("file", Basename(fileName), 0)

\* a root node that is not of kind file
untypedRoot(t) ==
  [id |-> fileNodeId, kind |-> "module", name |-> Basename(fileName),
   file |-> fileName, range |-> sourceFileRange(t), signature |-> ""]

fileNode(t) ==
  [id |-> fileNodeId, kind |-> "file", name |-> Basename(fileName),
   file |-> fileName, range |-> sourceFileRange(t), signature |-> ""]

RECURSIVE ParamList(_)
ParamList(ps) ==
  IF ps = <<>> THEN ""
  ELSE Head(ps).name \o ": " \o Head(ps).type
         \o (IF Len(ps) > 1 THEN ", " ELSE "") \o ParamList(Tail(ps))

\* checker.signatureToString(checker.getSignatureFromDeclaration(decl));
\* "" (undefined) for a class, and when the checker throws
signatureOf(t, d) ==
  IF t[d].kind \in FunctionLike /\ t[d].fault # "signature"
    THEN "(" \o ParamList(t[d].params) \o "): void"
    ELSE ""

\* a pushNode that registers the id of a declaration and lists no node for it
pushNodeUnlisted(t, g, d, kind, name) ==
  [ids |-> Set(g.ids, declLocation(Decl(t, d)).pos,
               mkId(kind, name, declLocation(Decl(t, d)).pos)),
   nodes |-> g.nodes]

\* pushNode(decl, kind, name), on the pair (nodes, idByDeclPos)
pushNode(t, g, d, kind, name) ==
  LET loc == declLocation(Decl(t, d))
      id == mkId(kind, name, loc.pos)
  IN [ids |-> Set(g.ids, loc.pos, id),
      nodes |-> Append(g.nodes,
                  [id |-> id, kind |-> kind, name |-> name, file |-> fileName,
                   range |-> loc.range, signature |-> signatureOf(t, d)])]

RECURSIVE pushMethods(_, _, _, _)
\* for (const m of node.members): the body-bearing methods named by an identifier
pushMethods(t, g, c, ms) ==
  IF ms = <<>> THEN g
  ELSE LET m == Head(ms)
       IN pushMethods(t,
            IF /\ t[m].kind = "MethodDeclaration" /\ t[m].name # ""
               /\ t[m].nameKind = "Identifier" /\ t[m].body
              THEN pushNode(t, g, m, "method", t[c].name \o "." \o t[m].name)
              ELSE g,
            c, Tail(ms))

\* what visitDecls does at node i, before it goes on to the children
visitDeclsNode(t, i, g) ==
  IF t[i].kind = "FunctionDeclaration" /\ t[i].name # "" /\ t[i].body
    THEN pushNode(t, g, i, "function", t[i].name)
  ELSE IF t[i].kind = "ClassDeclaration" /\ t[i].name # ""
    THEN pushMethods(t, pushNode(t, g, i, "class", t[i].name), i,
                     Ascending(Children(t, i)))
  ELSE g

RECURSIVE visitDecls(_, _, _, _)
RECURSIVE visitDeclsFrom(_, _, _, _)

\* visitDecls goes on at node lo with what the nodes before lo have pushed
visitDeclsFrom(t, lo, hi, g) ==
  IF Len(g.nodes) >= 0 THEN visitDecls(t, lo, hi, g) ELSE g

\* visitDecls(sf), over the nodes lo..hi in pre-order
visitDecls(t, lo, hi, g) ==
  IF lo > hi THEN g
  ELSE IF lo = hi THEN visitDeclsNode(t, lo, g)
  ELSE visitDeclsFrom(t, (lo + hi) \div 2 + 1, hi,
                      visitDecls(t, lo, (lo + hi) \div 2, g))

\* the declaration of the signature a call or a construction resolves to
SignatureDecl(t, i, kind) ==
  IF kind = "calls" THEN ResolvedSignatureDecl(t, i)
  ELSE ConstructSignatureDecl(t, i)

\* the end of resolveTargetDeclPos: the position of a declaration of the
\* analyzed file, NullPos for any other and for none
posInFile(decl) ==
  IF decl = NoDecl THEN NullPos
  ELSE IF declLocation(decl).fileName # fileName THEN NullPos
  ELSE declLocation(decl).pos

\* resolveTargetDeclPos(expr, kind): NullPos for null
resolveTargetDeclPos(t, i, kind) ==
  IF CheckerThrows(t, i) THEN NullPos
  ELSE posInFile(FirstDecl(SignatureDecl(t, i, kind),
                           pickBestDeclaration(t, SymbolDecls(t, i))))

\* an addEdge without the edgeKey.has(key) test
addEdgeAlways(e, edgeKind, srcId, tgtId, label, dedupeHint) ==
  [keys |-> e.keys,
   edges |-> Append(e.edges,
               [id |-> edgeKind \o ":" \o srcId \o "->" \o tgtId \o "@@" \o label
                         \o "@@" \o dedupeHint,
                kind |-> edgeKind, source |-> srcId, target |-> tgtId,
                label |-> label])]

\* an addEdge whose key leaves the hint out
addEdgeNoHint(e, edgeKind, srcId, tgtId, label, dedupeHint) ==
  LET key == edgeKind \o ":" \o srcId \o "->" \o tgtId \o "@@" \o label
  IN IF key \in e.keys THEN e
     ELSE [keys |-> e.keys \cup {key},
           edges |-> Append(e.edges,
                       [id |-> key, kind |-> edgeKind, source |-> srcId,
                        target |-> tgtId, label |-> label])]

\* addEdge(edgeKind, srcId, tgtId, label, dedupeHint), on the pair (edges, edgeKey)
addEdge(e, edgeKind, srcId, tgtId, label, dedupeHint) ==
  LET key == edgeKind \o ":" \o srcId \o "->" \o tgtId \o "@@" \o label
               \o "@@" \o dedupeHint
  IN IF key \in e.keys THEN e
     ELSE [keys |-> e.keys \cup {key},
           edges |-> Append(e.edges,
                       [id |-> key, kind |-> edgeKind, source |-> srcId,
                        target |-> tgtId, label |-> label])]

\* the character U+2026 that marks a clamped text
Ellipsis == "~"

\* the separator of a dataflow label, the code's " \u2190 "
Arrow == " <- "

clampText(s, max) ==
  IF Len(s) <= max THEN s ELSE SubSeq(s, 1, max - 1) \o Ellipsis

IsSpace(c) == c \in {" ", "\t", "\n", "\r"}

RECURSIVE CollapseWs(_, _, _)
\* s.replace(/\s+/g, " "), the part that comes from the indices lo..hi
CollapseWs(s, lo, hi) ==
  IF lo > hi THEN ""
  ELSE IF lo = hi
    THEN (IF IsSpace(SubSeq(s, lo, lo))
            THEN (IF lo > 1 /\ IsSpace(SubSeq(s, lo - 1, lo - 1)) THEN "" ELSE " ")
            ELSE SubSeq(s, lo, lo))
  ELSE LET mid == (lo + hi) \div 2
       IN CollapseWs(s, lo, mid) \o CollapseWs(s, mid + 1, hi)

\* buildDataflowLabel(p, arg); typeFails: checker.typeToString throws
buildDataflowLabel(p, arg, typeFails) ==
  LET paramName == clampText(CollapseWs(p.name, 1, Len(p.name)), ParamClamp)
      argText == clampText(CollapseWs(arg.text, 1, Len(arg.text)), ArgClamp)
      paramTypeStr == IF typeFails THEN "" ELSE p.type
      argTypeStr == IF typeFails THEN "" ELSE arg.type
      left == IF paramTypeStr # "" THEN paramName \o ": " \o paramTypeStr
              ELSE paramName
      right == IF argTypeStr # "" THEN argText \o ": " \o argTypeStr
               ELSE argText
  IN left \o Arrow \o right

RECURSIVE dataflowFrom(_, _, _, _, _, _, _)
\* the loop of addDataflowEdgesFromSignature, from argument index i on
dataflowFrom(e, ownerId, targetId, params, args, typeFails, i) ==
  IF i >= (IF Len(params) < Len(args) THEN Len(params) ELSE Len(args)) THEN e
  ELSE dataflowFrom(
         addEdge(e, "dataflow", ownerId, targetId,
                 buildDataflowLabel(params[i + 1], args[i + 1], typeFails),
                 "arg#" \o ToString(i)),
         ownerId, targetId, params, args, typeFails, i + 1)

\* addDataflowEdgesFromSignature(ownerId, targetId, sigDecl, callArgs)
addDataflowEdgesFromSignature(t, e, ownerId, targetId, sigDecl, i) ==
  IF sigDecl = NoDecl \/ sigDecl.tree = 0 THEN e
  ELSE dataflowFrom(e, ownerId, targetId, t[sigDecl.tree].params, t[i].args,
                    t[i].fault = "typestr", 0)

\* the node switches the owner of its body (the two first branches of walk)
SwitchesOwner(t, i) ==
  \/ t[i].kind = "FunctionDeclaration" /\ t[i].name # "" /\ t[i].body
  \/ /\ t[i].kind = "MethodDeclaration" /\ t[i].body
     /\ t[i].name # "" /\ t[i].nameKind = "Identifier"

\* an owner that no body switches
walkOwnerKept(t, ids, i) == fileNodeId

RECURSIVE walkOwner(_, _, _)
\* the ownerId walk(node i, ownerId) is called with; "" when walk is never
\* called on node i (walk descends only into the body of an owner-switching node)
walkOwner(t, ids, i) ==
  IF i = 1 THEN fileNodeId
  ELSE LET p == t[i].parent
           up == walkOwner(t, ids, p)
       IN IF up = "" THEN ""
          ELSE IF SwitchesOwner(t, p)
            THEN IF t[i].slot # "body" THEN ""
                 ELSE IF Get(ids, Pos(t, p)) # "" THEN Get(ids, Pos(t, p)) ELSE up
          ELSE up

\* edge branches that add the dataflow edges before the edge of the call
edgesToDataflowFirst(t, ids, e, i, ownerId, kind, targetPos) ==
  IF targetPos = NullPos \/ Get(ids, targetPos) = "" THEN e
  ELSE addEdge(
         addDataflowEdgesFromSignature(t, e, ownerId, Get(ids, targetPos),
                                       SignatureDecl(t, i, kind), i),
         kind, ownerId, Get(ids, targetPos), "", "")

\* the two edge branches of walk once the target position is resolved
edgesTo(t, ids, e, i, ownerId, kind, targetPos) ==
  IF targetPos = NullPos \/ Get(ids, targetPos) = "" THEN e
  ELSE addDataflowEdgesFromSignature(t,
         addEdge(e, kind, ownerId, Get(ids, targetPos), "", ""),
         ownerId, Get(ids, targetPos), SignatureDecl(t, i, kind), i)

\* the edge detection of walk at node i, called with ownerId
detect(t, ids, e, i, ownerId) ==
  IF t[i].kind = "CallExpression"
    THEN edgesTo(t, ids, e, i, ownerId, "calls",
                 resolveTargetDeclPos(t, i, "calls"))
  ELSE IF t[i].kind = "NewExpression"
    THEN edgesTo(t, ids, e, i, ownerId, "constructs",
                 resolveTargetDeclPos(t, i, "constructs"))
  ELSE e

\* walk(node i, ownerId): nothing where walk is never called, and nothing at
\* a node that switches the owner, which walk only descends into
walkNode(t, ids, e, i, ownerId) ==
  IF ownerId = "" \/ SwitchesOwner(t, i) THEN e
  ELSE detect(t, ids, e, i, ownerId)

RECURSIVE walk(_, _, _, _, _)
RECURSIVE walkFrom(_, _, _, _, _)

\* walk goes on at node lo with the edges that the nodes before lo have added
walkFrom(t, ids, e, lo, hi) ==
  IF Len(e.edges) >= 0 THEN walk(t, ids, e, lo, hi) ELSE e

\* walk(sf, fileNodeId), over the nodes lo..hi in pre-order
walk(t, ids, e, lo, hi) ==
  IF lo > hi THEN e
  ELSE IF lo = hi THEN walkNode(t, ids, e, lo, walkOwner(t, ids, lo))
  ELSE walkFrom(t, ids, walk(t, ids, e, lo, (lo + hi) \div 2),
                (lo + hi) \div 2 + 1, hi)

----------------------------------------------------------------------------
(* extractImports, extractExports *)

\* sf.statements
Statements(t) == Ascending(Children(t, 1))

RECURSIVE importSpecifiers(_)
\* the specifiers of the elements of a NamedImports
importSpecifiers(els) ==
  IF els = <<>> THEN <<>>
  ELSE LET el == Head(els)
           imported == IF el.propertyName # "" THEN el.propertyName ELSE el.name
       IN <<IF imported = el.name THEN imported
            ELSE imported \o " as " \o el.name>> \o importSpecifiers(Tail(els))

\* a record that is of kind default whenever there is a default name
importRecordByName(st) ==
  LET i == st.imp
      first == IF i.name # "" THEN <<i.name>> ELSE <<>>
  IN IF ~i.clause
       THEN [source |-> st.name, specifiers |-> <<>>, kind |-> "side-effect"]
     ELSE IF i.name # ""
       THEN [source |-> st.name, specifiers |-> first, kind |-> "default"]
     ELSE IF i.bindings = "namespace"
       THEN [source |-> st.name, specifiers |-> first \o <<i.nsName>>,
             kind |-> "namespace"]
     ELSE IF i.bindings = "named"
       THEN [source |-> st.name,
             specifiers |-> first \o importSpecifiers(i.elements), kind |-> "named"]
     ELSE [source |-> st.name, specifiers |-> first, kind |-> "unknown"]

\* the record extractImports pushes for one ImportDeclaration
importRecord(st) ==
  LET i == st.imp
      first == IF i.name # "" THEN <<i.name>> ELSE <<>>
  IN IF ~i.clause
       THEN [source |-> st.name, specifiers |-> <<>>, kind |-> "side-effect"]
     ELSE IF i.bindings = "namespace"
       THEN [source |-> st.name, specifiers |-> first \o <<i.nsName>>,
             kind |-> "namespace"]
     ELSE IF i.bindings = "named"
       THEN [source |-> st.name,
             specifiers |-> first \o importSpecifiers(i.elements), kind |-> "named"]
     ELSE IF i.name # ""
       THEN [source |-> st.name, specifiers |-> first, kind |-> "default"]
     ELSE [source |-> st.name, specifiers |-> first, kind |-> "unknown"]

\* the records pushed for the statements sts[lo..hi], in order
RECURSIVE importsFrom(_, _, _, _)
importsFrom(t, sts, lo, hi) ==
  IF lo > hi THEN <<>>
  ELSE IF lo = hi
    THEN IF t[sts[lo]].kind = "ImportDeclaration"
           THEN <<importRecord(t[sts[lo]])>> ELSE <<>>
  ELSE importsFrom(t, sts, lo, (lo + hi) \div 2)
         \o importsFrom(t, sts, (lo + hi) \div 2 + 1, hi)

extractImports(t) == importsFrom(t, Statements(t), 1, Cardinality(Children(t, 1)))

\* push(name, kind) of extractExports: nothing for an empty name
push(name, kind) == IF name = "" THEN <<>> ELSE <<[name |-> name, kind |-> kind]>>

RECURSIVE exportSpecifiers(_)
\* the records of the elements of a NamedExports
exportSpecifiers(els) ==
  IF els = <<>> THEN <<>>
  ELSE LET el == Head(els)
           local == IF el.propertyName # "" THEN el.propertyName ELSE el.name
       IN push(IF el.name = local THEN el.name ELSE local \o " as " \o el.name,
               "unknown") \o exportSpecifiers(Tail(els))

RECURSIVE constNames(_)
constNames(els) ==
  IF els = <<>> THEN <<>>
  ELSE push(Head(els).name, "const") \o constNames(Tail(els))

\* st.name?.text ?? (hasDefaultModifier(st) ? "default" : "")
NameOrDefault(st) ==
  IF st.name # "" THEN st.name ELSE IF st.default THEN "default" ELSE ""

\* the records extractExports pushes for one statement
exportRecords(st) ==
  IF st.kind = "FunctionDeclaration" /\ st.exported
    THEN push(NameOrDefault(st), "function")
  ELSE IF st.kind = "ClassDeclaration" /\ st.exported
    THEN push(NameOrDefault(st), "class")
  ELSE IF st.kind = "TypeAliasDeclaration" /\ st.exported
    THEN push(st.name, "type")
  ELSE IF st.kind = "InterfaceDeclaration" /\ st.exported
    THEN push(st.name, "interface")
  ELSE IF st.kind = "VariableStatement" /\ st.exported
    THEN constNames(st.imp.elements)
  ELSE IF st.kind = "ExportDeclaration"
    THEN IF ~st.imp.clause THEN push("*", "unknown")
         ELSE IF st.imp.bindings = "named" THEN exportSpecifiers(st.imp.elements)
         ELSE <<>>
  ELSE IF st.kind = "ExportAssignment"
    THEN push("default", "unknown")
  ELSE <<>>

\* the records pushed for the statements sts[lo..hi], in order
RECURSIVE exportsFrom(_, _, _, _)
exportsFrom(t, sts, lo, hi) ==
  IF lo > hi THEN <<>>
  ELSE IF lo = hi THEN exportRecords(t[sts[lo]])
  ELSE exportsFrom(t, sts, lo, (lo + hi) \div 2)
         \o exportsFrom(t, sts, (lo + hi) \div 2 + 1, hi)

extractExports(t) == exportsFrom(t, Statements(t), 1, Cardinality(Children(t, 1)))

----------------------------------------------------------------------------
(* analyzeTypeScriptWithTypes, one action per statement *)

\* a result for no tree that still lists a root node
RootOnlyResult ==
  [imports |-> <<>>, exports |-> <<>>, calls |-> <<>>,
   graph |-> [nodes |-> <<fileNode(sf)>>, edges |-> <<>>]]

\* the result of the branch if (!sf)
EmptyResult ==
  [imports |-> <<>>, exports |-> <<>>, calls |-> <<>>,
   graph |-> [nodes |-> <<>>, edges |-> <<>>]]

\* the analyzed files: one of the project, one that is no script, and one of
\* a dependency, opened from its package
FileNames == {"/w/src/a.ts", "/w/notes.md", "/w/node_modules/p/b.ts"}

\* the texts they may hold, parsed
SourceFiles ==
  SmallTrees \cup BulkTrees \cup ModuleTrees \cup MemberTrees \cup OwnerTrees
    \cup LabelTrees

\* the texts the file of the dependency may hold: at most one statement
PackageTrees == {FileOf(l) : l \in StmtLists(1)}

\* s.endsWith(suffix)
EndsWith(s, suffix) ==
  Len(s) >= Len(suffix) /\ SubSeq(s, Len(s) - Len(suffix) + 1, Len(s)) = suffix

\* the extensions of the root files a program takes in (allowJs: true)
SupportedExtensions == {".ts", ".tsx", ".js", ".jsx"}

\* program.getSourceFile(inMemoryFileName): the parsed text, and nothing
\* (NoTree) for a root file the program has not taken in
getSourceFile(f, trees) ==
  IF \E e \in SupportedExtensions : EndsWith(f, e) THEN trees ELSE {NoTree}

\* fileName.toLowerCase()
RECURSIVE toLowerCase(_)
toLowerCase(s) ==
  LET UpperCase == "ABCDEFGHIJKLMNOPQRSTUVWXYZ"
      LowerCase == "abcdefghijklmnopqrstuvwxyz"
      c == SubSeq(s, Len(s), Len(s))
      at == {i \in 1..Len(UpperCase) : SubSeq(UpperCase, i, i) = c}
  IN  IF Len(s) = 0 THEN ""
      ELSE toLowerCase(SubSeq(s, 1, Len(s) - 1))
             \o (IF at = {} THEN c
                 ELSE SubSeq(LowerCase, CHOOSE i \in at : TRUE,
                             CHOOSE i \in at : TRUE))

\* ts.ScriptKind, the four dialects pickScriptKind returns
ScriptKinds == {"TSX", "JSX", "JS", "TS"}

\* scriptKind before pickScriptKind has run
NoKind == "<none>"

\* a choice of dialect that ends in the plain one
pickScriptKindPlain(f, lang) ==
  LET lower == toLowerCase(f)
  IN  IF EndsWith(lower, ".tsx") \/ lang = "typescriptreact" THEN "TSX"
      ELSE IF EndsWith(lower, ".jsx") \/ lang = "javascriptreact" THEN "JSX"
      ELSE "JS"

\* pickScriptKind(fileName, languageId)
pickScriptKind(f, lang) ==
  LET lower == toLowerCase(f)
  IN  IF EndsWith(lower, ".tsx") \/ lang = "typescriptreact" THEN "TSX"
      ELSE IF EndsWith(lower, ".jsx") \/ lang = "javascriptreact" THEN "JSX"
      ELSE IF EndsWith(lower, ".js") \/ lang = "javascript" THEN "JS"
      ELSE "TS"

\* doc.languageId, the language the editor gives to the analyzed documents
DocumentLanguage(f) == IF EndsWith(f, ".md") THEN "markdown" ELSE "typescript"

\* the state before the first invocation, for the given texts
\* undefined, for an editor, and null, for a payload or a selected id
NoEditor == "<undefined>"
NoSelection == "<undefined>"
NullPayload == [uri |-> Null]

\* no panel is open: the host and the webview of the panel do not exist
NoPanel ==
  /\ lastTextEditor = NoEditor /\ lastSelection = NoSelection
  /\ activeTextEditor = NoEditor /\ docText = <<>>
  /\ analysisTimer = 0 /\ timers = {} /\ disposed = FALSE
  /\ event = [name |-> "", doc |-> NoEditor] /\ posted = <<>> /\ analyzed = <<>>
  /\ activeFile = NullPayload /\ selection = NullPayload
  /\ analysis = NullPayload /\ selectedNodeId = Null

InitWith(trees) ==
  /\ fileName \in FileNames
  /\ languageId = DocumentLanguage(fileName)
  /\ scriptKind = NoKind
  /\ sf \in getSourceFile(fileName,
                          IF isExternalFile(fileName)
                            THEN trees \cap PackageTrees ELSE trees)
  /\ pc = "start"
  /\ imports = <<>> /\ exports = <<>> /\ map = <<>> /\ calls = <<>>
  /\ nodes = <<>> /\ edges = <<>> /\ idByDeclPos = <<>> /\ edgeKey = {}
  /\ result = NoResult /\ thrown = FALSE
  /\ run = 1 /\ prev = NoResult
  /\ NoPanel

Init == InitWith(SourceFiles)

\* const scriptKind = pickScriptKind(fileName, languageId), and the program
\* created for the file
PickScriptKind ==
  /\ pc = "start"
  /\ scriptKind' = pickScriptKind(fileName, languageId)
  /\ pc' = "program"
  /\ UNCHANGED <<fileName, languageId, sf, imports, exports, map, calls, nodes,
                 edges, idByDeclPos, edgeKey, result, thrown, run, prev, hostVars, webVars>>

\* if (!sf) return { imports: [], exports: [], calls: [], graph: ... }
NoSourceFile ==
  /\ pc = "program" /\ sf = NoTree
  /\ result' = EmptyResult
  /\ pc' = "returned"
  /\ UNCHANGED <<fileName, languageId, scriptKind,
                 sf, imports, exports, map, calls, nodes, edges,
                 idByDeclPos, edgeKey, thrown, run, prev, hostVars, webVars>>

\* const imports = extractImports(sf)
ExtractImports ==
  /\ pc = "program" /\ sf # NoTree
  /\ imports' = extractImports(sf)
  /\ pc' = "exports"
  /\ UNCHANGED <<fileName, languageId, scriptKind,
                 sf, exports, map, calls, nodes, edges,
                 idByDeclPos, edgeKey, result, thrown, run, prev, hostVars, webVars>>

\* const exports = extractExports(sf)
ExtractExports ==
  /\ pc = "exports"
  /\ exports' = extractExports(sf)
  /\ pc' = "calls"
  /\ UNCHANGED <<fileName, languageId, scriptKind,
                 sf, imports, map, calls, nodes, edges,
                 idByDeclPos, edgeKey, result, thrown, run, prev, hostVars, webVars>>

\* the checker throws at some call or construction of the tree
SomeCallThrows(t) == \E i \in CallSites(t) : CheckerThrows(t, i)

\* const calls = extractCallsResolved(sf, checker)
ExtractCallsResolved ==
  /\ pc = "calls" /\ ~SomeCallThrows(sf)
  /\ map' = visit(sf, 1, Len(sf), NewMap)
  /\ calls' = CallsOf(map')
  /\ pc' = "graph"
  /\ UNCHANGED <<fileName, languageId, scriptKind,
                 sf, imports, exports, nodes, edges,
                 idByDeclPos, edgeKey, result, thrown, run, prev, hostVars, webVars>>

\* extractCallsResolved has no try: what the checker throws leaves the analysis
ExtractCallsThrows ==
  /\ pc = "calls" /\ SomeCallThrows(sf)
  /\ thrown' = TRUE
  /\ pc' = "thrown"
  /\ UNCHANGED <<fileName, languageId, scriptKind,
                 sf, imports, exports, map, calls, nodes, edges,
                 idByDeclPos, edgeKey, result, run, prev, hostVars, webVars>>

\* nodes' and idByDeclPos' from the pair visitDecls has built
Declared(g) == nodes' = g.nodes /\ idByDeclPos' = g.ids

\* edges' and edgeKey' from the pair walk has built
Walked(e) == edges' = e.edges /\ edgeKey' = e.keys

\* const graph = buildActiveFileGraph(sf, checker), its first half: the
\* fresh collections, the file node, visitDecls(sf)
VisitDecls ==
  /\ pc = "graph"
  /\ Declared(visitDecls(sf, 1, Len(sf),
                         [ids |-> NewIdMap,
                          nodes |-> Append(NewList, fileNode(sf))]))
  /\ edges' = NewList
  /\ edgeKey' = NewEdgeKey
  /\ pc' = "walk"
  /\ UNCHANGED <<fileName, languageId, scriptKind,
                 sf, imports, exports, map, calls, result, thrown,
                 run, prev, hostVars, webVars>>

\* buildActiveFileGraph, its second half: walk(sf, fileNodeId)
Walk ==
  /\ pc = "walk"
  /\ Walked(walk(sf, idByDeclPos, [keys |-> edgeKey, edges |-> edges],
                 1, Len(sf)))
  /\ pc' = "return"
  /\ UNCHANGED <<fileName, languageId, scriptKind,
                 sf, imports, exports, map, calls, nodes, idByDeclPos,
                 result, thrown, run, prev, hostVars, webVars>>

\* return { imports, exports, calls, graph }
Return ==
  /\ pc = "return"
  /\ result' = [imports |-> imports, exports |-> exports, calls |-> calls,
                graph |-> [nodes |-> nodes, edges |-> edges]]
  /\ pc' = "returned"
  /\ UNCHANGED <<fileName, languageId, scriptKind,
                 sf, imports, exports, map, calls, nodes, edges,
                 idByDeclPos, edgeKey, thrown, run, prev, hostVars, webVars>>

\* postAnalysis calls the analysis again on the same document
Again ==
  /\ pc \in {"returned", "thrown"} /\ run < MaxRuns
  /\ prev' = result
  /\ result' = NoResult
  /\ thrown' = FALSE
  /\ run' = run + 1
  /\ pc' = "start"
  /\ UNCHANGED <<fileName, languageId, scriptKind,
                 sf, imports, exports, map, calls, nodes, edges,
                 idByDeclPos, edgeKey, hostVars, webVars>>

Next ==
  \/ PickScriptKind
  \/ NoSourceFile
  \/ ExtractImports
  \/ ExtractExports
  \/ ExtractCallsResolved
  \/ ExtractCallsThrows
  \/ VisitDecls
  \/ Walk
  \/ Return
  \/ Again

Spec == Init /\ [][Next]_vars

\* the documents an editor may hand to the analysis: names with and without
\* a recognized extension, in either case of letters
DialectFileNames ==
  {"/w/a.ts", "/w/a.tsx", "/w/a.js", "/w/a.jsx", "/w/A.TSX", "/w/B.Js",
   "/w/c.vue", "/w/notes.md", "/w/Makefile", "/w/d.jsx.bak", "/w/e.mts"}

\* the languages an editor may give them
LanguageIds ==
  {"typescript", "typescriptreact", "javascript", "javascriptreact", "vue",
   "plaintext"}

\* any document in any language, before the dialect is picked
DialectInit ==
  /\ fileName \in DialectFileNames
  /\ languageId \in LanguageIds
  /\ scriptKind = NoKind
  /\ sf = NoTree
  /\ pc = "start"
  /\ imports = <<>> /\ exports = <<>> /\ map = <<>> /\ calls = <<>>
  /\ nodes = <<>> /\ edges = <<>> /\ idByDeclPos = <<>> /\ edgeKey = {}
  /\ result = NoResult /\ thrown = FALSE
  /\ run = 1 /\ prev = NoResult
  /\ NoPanel

\* the choice of the dialect alone
DialectSpec == DialectInit /\ [][PickScriptKind]_vars

----------------------------------------------------------------------------
(* The extension host of one panel: activate *)

\* most timers that wait at once (never reached while every arming clears
\* the timer armed before)
MaxTimers == 2

\* scheduleAnalysis(350)
EditDelay == 350

\* the documents of the editors, by uri
Documents == {"file:///w/a.ts", "file:///w/b.ts"}

\* the text of f(2, x), at which the checker throws (sCallBad)
ThrowingText == "bad(2, x)"

\* the texts a document may hold
Texts == {"", "f(2, x)", ThrowingText}

\* the selections of an editor
Selections == {"0:0-0:0", "1:0-1:4"}

\* the analysis is abstracted to the text it is given: a result for the
\* text, or an exception
analyzeThrows(text) == text = ThrowingText

\* getEditor(): lastTextEditor ?? vscode.window.activeTextEditor
getEditor(last, active) == IF last # NoEditor THEN last ELSE active

\* the message of postActiveFile(panel)
postActiveFile(editor, texts) ==
  [type |-> "activeFile",
   payload |-> IF editor = NoEditor THEN NullPayload
               ELSE [uri |-> editor, text |-> texts[editor]]]

\* the message of postSelection(panel)
postSelection(editor, sel) ==
  [type |-> "selection",
   payload |-> IF editor = NoEditor THEN NullPayload
               ELSE [uri |-> editor,
                     sel |-> IF sel # NoSelection THEN sel ELSE "0:0-0:0"]]

\* postAnalysis(panel): the texts analyzed and the messages posted; the
\* exception of the analysis leaves postAnalysis before it posts
postAnalysis(editor, texts) ==
  IF editor = NoEditor
    THEN [analyzed |-> <<>>,
          posted |-> <<[type |-> "analysisResult", payload |-> NullPayload]>>]
  ELSE IF analyzeThrows(texts[editor])
    THEN [analyzed |-> <<texts[editor]>>, posted |-> <<>>]
  ELSE [analyzed |-> <<texts[editor]>>,
        posted |-> <<[type |-> "analysisResult",
                      payload |-> [uri |-> editor, text |-> texts[editor]]]>>]

\* an arming that leaves the timer armed before
scheduleAnalysisUncleared(ts, handle, delayMs) ==
  LET used == {t.id : t \in ts} \cup {handle}
      id == CHOOSE n \in 1..(MaxTimers + 2) :
              n \notin used /\ \A m \in 1..(n - 1) : m \in used
  IN [timers |-> ts \cup {[id |-> id, delay |-> IF delayMs < 0 THEN 0 ELSE delayMs]},
      analysisTimer |-> id]

\* scheduleAnalysis(delayMs): the timers that wait and the handle afterwards
scheduleAnalysis(ts, handle, delayMs) ==
  LET cleared == IF handle # 0 THEN {t \in ts : t.id # handle} ELSE ts
      used == {t.id : t \in cleared} \cup {handle}
      id == CHOOSE n \in 1..(MaxTimers + 2) :
              n \notin used /\ \A m \in 1..(n - 1) : m \in used
  IN [timers |-> cleared \cup {[id |-> id, delay |-> IF delayMs < 0 THEN 0 ELSE delayMs]},
      analysisTimer |-> id]

\* what reaches panel.webview.postMessage: the API does not say what a
\* disposed panel does with a message, it may refuse it before the call
Posts(msgs) == IF disposed THEN {<<>>, msgs} ELSE {msgs}

\* the command codegraph.open: the panel is created and the state of the
\* editor posted
HostInit ==
  /\ fileName = "" /\ languageId = "" /\ scriptKind = NoKind /\ sf = NoTree
  /\ pc = "host"
  /\ imports = <<>> /\ exports = <<>> /\ map = <<>> /\ calls = <<>>
  /\ nodes = <<>> /\ edges = <<>> /\ idByDeclPos = <<>> /\ edgeKey = {}
  /\ result = NoResult /\ thrown = FALSE
  /\ run = 1 /\ prev = NoResult
  /\ activeTextEditor \in Documents \cup {NoEditor}
  /\ lastTextEditor = activeTextEditor
  /\ lastSelection = IF activeTextEditor = NoEditor THEN NoSelection ELSE "0:0-0:0"
  /\ docText \in [Documents -> Texts]
  /\ analysisTimer = 0 /\ timers = {} /\ disposed = FALSE
  /\ event = [name |-> "open", doc |-> NoEditor]
  /\ posted = <<postActiveFile(getEditor(lastTextEditor, activeTextEditor), docText),
                postSelection(getEditor(lastTextEditor, activeTextEditor),
                              lastSelection)>>
  /\ analyzed = <<>>
  /\ activeFile = NullPayload /\ selection = NullPayload
  /\ analysis = NullPayload /\ selectedNodeId = Null

\* panel.webview.onDidReceiveMessage: a message of the webview is handled
ReceiveMessage ==
  /\ pc = "host" /\ ~disposed
  /\ \E type \in {"requestActiveFile", "requestSelection", "analyzeActiveFile"} :
       \E editor \in {getEditor(lastTextEditor, activeTextEditor)} :
         /\ event' = [name |-> type, doc |-> NoEditor]
         /\ \/ /\ type = "requestActiveFile"
               /\ posted' = <<postActiveFile(editor, docText)>>
               /\ analyzed' = <<>>
            \/ /\ type = "requestSelection"
               /\ posted' = <<postSelection(editor, lastSelection)>>
               /\ analyzed' = <<>>
            \/ /\ type = "analyzeActiveFile"
               /\ posted' = postAnalysis(editor, docText).posted
               /\ analyzed' = postAnalysis(editor, docText).analyzed
  /\ UNCHANGED <<analysisVars, webVars, lastTextEditor, lastSelection,
                 activeTextEditor, docText, analysisTimer, timers, disposed>>

\* subActive: vscode.window.onDidChangeActiveTextEditor
ChangeActiveTextEditor ==
  /\ pc = "host" /\ ~disposed /\ Cardinality(timers) < MaxTimers
  /\ \E editor \in (Documents \cup {NoEditor}) \ {activeTextEditor} :
       /\ activeTextEditor' = editor
       /\ lastTextEditor' = IF editor # NoEditor THEN editor ELSE lastTextEditor
       /\ lastSelection' = IF editor # NoEditor THEN "0:0-0:0" ELSE lastSelection
       /\ event' = [name |-> "activeEditor", doc |-> editor]
  /\ posted' = <<postActiveFile(getEditor(lastTextEditor', activeTextEditor'), docText)>>
  /\ analyzed' = <<>>
  /\ timers' = scheduleAnalysis(timers, analysisTimer, 0).timers
  /\ analysisTimer' = scheduleAnalysis(timers, analysisTimer, 0).analysisTimer
  /\ UNCHANGED <<analysisVars, webVars, docText, disposed>>

\* subChange: vscode.workspace.onDidChangeTextDocument
ChangeTextDocument ==
  /\ pc = "host" /\ ~disposed /\ Cardinality(timers) < MaxTimers
  /\ \E doc \in Documents : \E text \in Texts \ {docText[doc]} :
       /\ docText' = [docText EXCEPT ![doc] = text]
       /\ event' = [name |-> "change", doc |-> doc]
       /\ IF getEditor(lastTextEditor, activeTextEditor) = doc
            THEN /\ posted' = <<postActiveFile(doc, docText')>>
                 /\ timers' = scheduleAnalysis(timers, analysisTimer, EditDelay).timers
                 /\ analysisTimer' =
                      scheduleAnalysis(timers, analysisTimer, EditDelay).analysisTimer
            ELSE /\ posted' = <<>>
                 /\ UNCHANGED <<timers, analysisTimer>>
  /\ analyzed' = <<>>
  /\ UNCHANGED <<analysisVars, webVars, lastTextEditor, lastSelection,
                 activeTextEditor, disposed>>

\* subSave: vscode.workspace.onDidSaveTextDocument
SaveTextDocument ==
  /\ pc = "host" /\ ~disposed /\ Cardinality(timers) < MaxTimers
  /\ \E doc \in Documents :
       /\ event' = [name |-> "save", doc |-> doc]
       /\ IF getEditor(lastTextEditor, activeTextEditor) = doc
            THEN /\ timers' = scheduleAnalysis(timers, analysisTimer, 0).timers
                 /\ analysisTimer' =
                      scheduleAnalysis(timers, analysisTimer, 0).analysisTimer
            ELSE UNCHANGED <<timers, analysisTimer>>
  /\ posted' = <<>> /\ analyzed' = <<>>
  /\ UNCHANGED <<analysisVars, webVars, lastTextEditor, lastSelection,
                 activeTextEditor, docText, disposed>>

\* subSelection: vscode.window.onDidChangeTextEditorSelection
ChangeTextEditorSelection ==
  /\ pc = "host" /\ ~disposed
  /\ \E textEditor \in Documents : \E sel \in Selections \ {lastSelection} :
       /\ lastTextEditor' = textEditor
       /\ lastSelection' = sel
       /\ posted' = <<postSelection(textEditor, sel)>>
       /\ event' = [name |-> "selection", doc |-> textEditor]
  /\ analyzed' = <<>>
  /\ UNCHANGED <<analysisVars, webVars, activeTextEditor, docText,
                 analysisTimer, timers, disposed>>

\* the callback of setTimeout: a timer that waits runs
TimerFires ==
  /\ pc = "host"
  /\ \E t \in timers :
       /\ timers' = timers \ {t}
       /\ event' = [name |-> "timer", doc |-> NoEditor]
  /\ \E run_ \in {postAnalysis(getEditor(lastTextEditor, activeTextEditor), docText)} :
       /\ analyzed' = run_.analyzed
       /\ posted' \in Posts(run_.posted)
  /\ UNCHANGED <<analysisVars, webVars, lastTextEditor, lastSelection,
                 activeTextEditor, docText, analysisTimer, disposed>>

\* panel.onDidDispose: the four subscriptions are disposed
Dispose ==
  /\ pc = "host" /\ ~disposed
  /\ disposed' = TRUE
  /\ event' = [name |-> "dispose", doc |-> NoEditor]
  /\ posted' = <<>> /\ analyzed' = <<>>
  /\ UNCHANGED <<analysisVars, webVars, lastTextEditor, lastSelection,
                 activeTextEditor, docText, analysisTimer, timers>>

\* the host of one panel; a timer that waits runs in the end
HostSpec ==
  /\ HostInit
  /\ [][\/ ReceiveMessage \/ ChangeActiveTextEditor \/ ChangeTextDocument
        \/ SaveTextDocument \/ ChangeTextEditorSelection \/ TimerFires
        \/ Dispose]_vars
  /\ WF_vars(TimerFires)

----------------------------------------------------------------------------
(* The webview of the panel: App *)

\* the graphs an analysisResult may carry: up to two nodes of different ids,
\* each as one of two analyses describes it
WebGraphs ==
  LET ids == {"file:/w/a.ts", "function:f@0", "class:A@20"}
      GraphNodes == {[id |-> i, line |-> l] : i \in ids, l \in {0, 3}}
  IN {<<>>} \cup {<<n>> : n \in GraphNodes}
       \cup {g \in {<<n, m>> : n \in GraphNodes, m \in GraphNodes} :
               g[1].id # g[2].id}

\* event.data of the messages the window may receive
WebMessages ==
  {[type |-> "activeFile", payload |-> p] :
     p \in {NullPayload, [uri |-> "file:///w/a.ts"]}}
    \cup {[type |-> "selection", payload |-> p] :
            p \in {NullPayload, [uri |-> "file:///w/a.ts"]}}
    \cup {[type |-> "analysisResult", payload |-> NullPayload]}
    \cup {[type |-> "analysisResult",
           payload |-> [uri |-> "file:///w/a.ts", graph |-> [nodes |-> g]]] :
            g \in WebGraphs}
    \cup {[type |-> "error", payload |-> NullPayload]}

\* isExtToWebviewMessage(event.data)
isExtToWebviewMessage(x) == x.type \in {"activeFile", "selection", "analysisResult"}

\* const graph = analysis?.graph, NoGraph for undefined
NoGraph == [nodes |-> <<>>, undefined |-> TRUE]
graphOf(a) == IF a = NullPayload THEN NoGraph ELSE a.graph

\* Boolean(graph && graph.nodes.length > 0)
hasGraphData(a) == graphOf(a) # NoGraph /\ Len(graphOf(a).nodes) > 0

\* a look-up that shows the node of the selected id whatever the graph holds
findNodeByIdKept(graph, id) ==
  IF id = Null THEN NullPayload ELSE [id |-> id, line |-> 0]

\* findNodeById(graph, id), NullPayload for null
findNodeById(graph, id) ==
  IF graph = NoGraph \/ id = Null \/ id = "" THEN NullPayload
  ELSE LET found == {k \in 1..Len(graph.nodes) : graph.nodes[k].id = id}
       IN IF found = {} THEN NullPayload
          ELSE graph.nodes[CHOOSE k \in found : \A j \in found : k <= j]

\* const selectedNode = useMemo(() => findNodeById(graph, selectedNodeId), ...)
selectedNode == findNodeById(graphOf(analysis), selectedNodeId)

\* the webview is mounted
WebInit ==
  /\ fileName = "" /\ languageId = "" /\ scriptKind = NoKind /\ sf = NoTree
  /\ pc = "web"
  /\ imports = <<>> /\ exports = <<>> /\ map = <<>> /\ calls = <<>>
  /\ nodes = <<>> /\ edges = <<>> /\ idByDeclPos = <<>> /\ edgeKey = {}
  /\ result = NoResult /\ thrown = FALSE
  /\ run = 1 /\ prev = NoResult
  /\ NoPanel

\* onMessage: a message of the window is handled
OnMessage ==
  /\ pc = "web"
  /\ \E msg \in WebMessages :
       IF ~isExtToWebviewMessage(msg)
         THEN UNCHANGED <<activeFile, selection, analysis>>
         ELSE /\ activeFile' =
                   IF msg.type = "activeFile" THEN msg.payload ELSE activeFile
              /\ selection' =
                   IF msg.type = "selection" THEN msg.payload ELSE selection
              /\ analysis' =
                   IF msg.type = "analysisResult" THEN msg.payload ELSE analysis
  /\ UNCHANGED <<analysisVars, hostVars, selectedNodeId>>

\* onNodeClick of a node of the canvas: onSelectNode(node.id)
NodeClick ==
  /\ pc = "web" /\ hasGraphData(analysis)
  /\ \E k \in 1..Len(graphOf(analysis).nodes) :
       selectedNodeId' = graphOf(analysis).nodes[k].id
  /\ UNCHANGED <<analysisVars, hostVars, activeFile, selection, analysis>>

\* onPaneClick: onClearSelection()
PaneClick ==
  /\ pc = "web" /\ hasGraphData(analysis)
  /\ selectedNodeId' = Null
  /\ UNCHANGED <<analysisVars, hostVars, activeFile, selection, analysis>>

\* the webview of one panel
WebSpec == WebInit /\ [][OnMessage \/ NodeClick \/ PaneClick]_vars

----------------------------------------------------------------------------
(* Properties of the analysis results *)

\* the analysis has returned a result
Returned == pc = "returned"

\* the analysis has returned the result of a file that has a syntax tree
ReturnedTree == pc = "returned" /\ sf # NoTree

\* the ids of the nodes of a result
NodeIds(r) == {r.graph.nodes[k].id : k \in 1..Len(r.graph.nodes)}

\* the kinds of the edges of a result
EdgeKinds(r) == {r.graph.edges[k].kind : k \in 1..Len(r.graph.edges)}

\* (calleeName, declFile, declaration position)
Triple(item) == <<item.calleeName, item.declFile, item.declPos>>

\* the same, read from an entry of a calls list, which holds the position as
\* the start of declRange
RecordTriple(r) == <<r.calleeName, r.declFile, r.declRange.start.character>>

\* what the aggregation resolves the call or construction at node i to
SiteItem(t, i) ==
  IF t[i].kind = "CallExpression" THEN resolveCallToDeclaration(t, i)
  ELSE resolveNewToDeclaration(t, i)

\* the node of the declaration an item names, "" when it has none in the graph
TargetOf(ids, item) ==
  IF item.declFile = fileName THEN Get(ids, item.declPos) ELSE ""

\* for every call and construction of the tree: its triple, the owner walk
\* reaches it with ("": not reached) and its target node
SiteFacts(t, ids) ==
  {[site |-> i, kind |-> t[i].kind, triple |-> Triple(SiteItem(t, i)),
    owner |-> walkOwner(t, ids, i), target |-> TargetOf(ids, SiteItem(t, i))] :
     i \in CallSites(t)}

RECURSIVE SumCounts(_, _, _)
\* the sum of the counts of s[lo..hi]
SumCounts(s, lo, hi) ==
  IF lo > hi THEN 0
  ELSE IF lo = hi THEN s[lo].count
  ELSE SumCounts(s, lo, (lo + hi) \div 2) + SumCounts(s, (lo + hi) \div 2 + 1, hi)

\* the edges of kind `kind` from src to tgt in a list of edges
EdgesBetween(es, kind, src, tgt) ==
  {k \in 1..Len(es) : es[k].kind = kind /\ es[k].source = src /\ es[k].target = tgt}

\* C1: graph closure. In every result, the source and the target of every
\* edge (calls, constructs, dataflow) are ids of nodes of the same result.
C1_GraphClosure ==
  Returned =>
    \A k \in 1..Len(result.graph.edges) :
      /\ result.graph.edges[k].source \in NodeIds(result)
      /\ result.graph.edges[k].target \in NodeIds(result)

\* a result with edges of the three kinds, one of them from a method
C1_Witness ==
  /\ Returned
  /\ EdgeKinds(result) = {"calls", "constructs", "dataflow"}
  /\ \E k \in 1..Len(result.graph.edges) :
       result.graph.edges[k].source # fileNodeId

\* C2: count conservation. The count of every entry of the calls list is the
\* number of calls and constructions of the tree with the entry's
\* (calleeName, declFile, declaration position); with at most 60 different
\* triples in the file, the counts add up to the number of calls and
\* constructions of the file.
C2_CountConservation ==
  ReturnedTree =>
    LET facts == SiteFacts(sf, idByDeclPos)
    IN /\ \A k \in 1..Len(result.calls) :
            \E j \in 1..Len(map) :
              /\ Rest(map[j]) = result.calls[k]
              /\ result.calls[k].count
                   = Cardinality({f \in facts : f.triple = Triple(map[j])})
       /\ Cardinality({f.triple : f \in facts}) <= MaxCalls
            => SumCounts(result.calls, 1, Len(result.calls))
                 = Cardinality(CallSites(sf))

\* a result in which one entry counts several expressions and another one
C2_Witness ==
  /\ ReturnedTree
  /\ \E j, k \in 1..Len(result.calls) :
       result.calls[j].count >= 2 /\ result.calls[k].count = 1

C4_EntriesUnique ==
  ReturnedTree =>
    LET triples == {f.triple : f \in SiteFacts(sf, idByDeclPos)}
    IN /\ \A j, k \in 1..Len(result.calls) :
            j # k => RecordTriple(result.calls[j]) # RecordTriple(result.calls[k])
       /\ \A j, k \in 1..Len(map) : j # k => Triple(map[j]) # Triple(map[k])
       /\ {Triple(map[k]) : k \in 1..Len(map)} = triples
       /\ \A k \in 1..Len(result.calls) : RecordTriple(result.calls[k]) \in triples

\* a result with two entries that differ in the declaration position only
C4_Witness ==
  /\ ReturnedTree
  /\ \E j, k \in 1..Len(result.calls) :
       /\ result.calls[j].calleeName = result.calls[k].calleeName
       /\ result.calls[j].declFile = result.calls[k].declFile
       /\ result.calls[j].declRange # result.calls[k].declRange

\* the entries of the aggregation that the calls list does not hold
Dropped == {j \in 1..Len(map) :
              \A k \in 1..Len(result.calls) : result.calls[k] # Rest(map[j])}

\* C5: the calls list has at most 60 entries, its counts never increase from
\* one entry to the next, every entry is one of the aggregation, and no entry
\* the cap has dropped has a greater count than an entry that was kept.
C5_CappedAndSorted ==
  ReturnedTree =>
    /\ Len(result.calls) <= MaxCalls
    /\ \A k \in 1..(Len(result.calls) - 1) :
         result.calls[k].count >= result.calls[k + 1].count
    /\ \A k \in 1..Len(result.calls) :
         \E j \in 1..Len(map) : result.calls[k] = Rest(map[j])
    /\ Len(map) <= MaxCalls => Dropped = {}
    /\ \A j \in Dropped : \A k \in 1..Len(result.calls) :
         map[j].count <= result.calls[k].count

\* more than 60 keys, and a key first seen after 60 others that is kept for
\* its count while keys seen before it are dropped
C5_Witness ==
  /\ ReturnedTree
  /\ Len(map) > MaxCalls /\ Len(result.calls) = MaxCalls
  /\ Dropped # {}
  /\ \E j \in (MaxCalls + 1)..Len(map) : j \notin Dropped /\ map[j].count >= 2

C7_NoTreeAllEmpty ==
  sf = NoTree =>
    /\ pc \in {"start", "program", "returned"}
    /\ ~thrown
    /\ imports = <<>> /\ exports = <<>> /\ map = <<>> /\ calls = <<>>
    /\ nodes = <<>> /\ edges = <<>> /\ idByDeclPos = <<>> /\ edgeKey = {}
    /\ pc = "returned" =>
         /\ result.imports = <<>> /\ result.exports = <<>>
         /\ result.calls = <<>>
         /\ result.graph.nodes = <<>> /\ result.graph.edges = <<>>

\* the analysis has returned for a file without a syntax tree
C7_Witness == sf = NoTree /\ pc = "returned" /\ result # NoResult

\* C8: failure containment. When the resolution of one call or construction
\* fails, the analysis still returns a result: no exception reaches its
\* caller, neither from the call aggregation nor from the graph construction.
C8_NoExceptionEscapes == pc # "thrown" /\ ~thrown

\* the nodes of kind file of a result
FileNodes(r) == {k \in 1..Len(r.graph.nodes) : r.graph.nodes[k].kind = "file"}

\* C9, as stated: every analysis result contains exactly one node of kind
\* file.
C9_AlwaysOneFileNode == Returned => Cardinality(FileNodes(result)) = 1

\* C9, amended: every result of a file that has a syntax tree contains
\* exactly one node of kind file, which spans the whole file, also when the
\* file declares no function, class or method; the result returned without a
\* syntax tree contains no node.
C9_OneFileNodeOfATree ==
  /\ ReturnedTree =>
       /\ Cardinality(FileNodes(result)) = 1
       /\ \A k \in FileNodes(result) :
            /\ result.graph.nodes[k].range = RangeOf(0, End(sf, 1))
            /\ result.graph.nodes[k].id = fileNodeId
  /\ (Returned /\ sf = NoTree) => result.graph.nodes = <<>>

\* the result of a file that has statements and declares nothing
C9_Witness ==
  /\ ReturnedTree
  /\ Len(sf) > 1
  /\ Len(result.graph.nodes) = 1
  /\ result.graph.nodes[1].kind = "file"

\* C10: the ids of the nodes of one result are pairwise different, for any
\* arrangement of functions, classes, methods and nested declarations.
C10_NodeIdsUnique ==
  Returned =>
    \A j, k \in 1..Len(result.graph.nodes) :
      j # k => result.graph.nodes[j].id # result.graph.nodes[k].id

\* two function nodes of one name, a top-level declaration and a nested one
C10_Witness ==
  /\ Returned
  /\ \E j, k \in 1..Len(result.graph.nodes) :
       /\ j # k
       /\ result.graph.nodes[j].kind = "function"
       /\ result.graph.nodes[k].kind = "function"
       /\ result.graph.nodes[j].name = result.graph.nodes[k].name

----------------------------------------------------------------------------
(* C11..C13: the edges of calls and constructions *)

\* the kind of edge walk adds for the call or construction at node i
SiteKind(t, i) ==
  IF t[i].kind = "CallExpression" THEN "calls" ELSE "constructs"

\* the smaller of two numbers
Min(a, b) == IF a < b THEN a ELSE b

\* the (parameter, argument) pairs of the call or construction at node i with
\* the signature declaration sd, as (owner, target, index, label); none when
\* walk does not reach the node, the target has no node or the signature has
\* no declaration in the file
PairsWith(t, i, owner, target, sd) ==
  IF owner = "" \/ target = "" \/ sd = NoDecl \/ sd.tree = 0 THEN {}
  ELSE {[owner |-> owner, target |-> target, index |-> n,
         label |-> buildDataflowLabel(t[sd.tree].params[n + 1],
                                      t[i].args[n + 1],
                                      t[i].fault = "typestr")] :
          n \in 0..(Min(Len(t[i].args), Len(t[sd.tree].params)) - 1)}

\* the same, for the owner, target and signature the code resolves at node i
Pairs(t, ids, i) ==
  PairsWith(t, i, walkOwner(t, ids, i),
            Get(ids, resolveTargetDeclPos(t, i, SiteKind(t, i))),
            SignatureDecl(t, i, SiteKind(t, i)))

\* the dataflow edges from src to tgt that carry the label
LabelledBetween(es, src, tgt, label) ==
  {k \in EdgesBetween(es, "dataflow", src, tgt) : es[k].label = label}

\* C11: per-argument dataflow edges. A call from owner o to a node t of the
\* file that passes k arguments to a resolved signature with m parameters
\* yields one dataflow edge o->t for each index i < min(k, m), labelled from
\* parameter i and argument i: the dataflow edges o->t that carry a label are
\* as many as the indices, over the calls and constructions from o to t, whose
\* pair gives that label, so that two indices never share an edge.
C11_OneDataflowEdgePerIndex ==
  ReturnedTree =>
    LET all == UNION {Pairs(sf, idByDeclPos, i) : i \in CallSites(sf)}
    IN \A d \in all :
         Cardinality(LabelledBetween(result.graph.edges, d.owner, d.target,
                                     d.label))
           = Cardinality({x.index : x \in {y \in all : /\ y.owner = d.owner
                                                        /\ y.target = d.target
                                                        /\ y.label = d.label}})

\* a call whose two arguments give the same label to two parameters, and the
\* two dataflow edges of that label
C11_Witness ==
  /\ ReturnedTree
  /\ \E i \in CallSites(sf) : \E d, x \in Pairs(sf, idByDeclPos, i) :
       /\ sf[i].kind = "CallExpression"
       /\ d.index # x.index /\ d.label = x.label
       /\ Cardinality(LabelledBetween(result.graph.edges, d.owner, d.target,
                                      d.label)) = 2

\* the parameters of the first constructor of class c, <<>> when it has none
CtorParams(t, c) ==
  IF FirstConstructor(t, c) = NoDecl THEN <<>>
  ELSE t[FirstConstructor(t, c).tree].params

\* the construction at node i, reached by walk with `owner`, of the class
\* declared at node c has a constructs edge from the owner to the node of
\* the class and a dataflow edge for each (constructor parameter, argument)
ConstructionEdges(t, es, i, owner, c, classId) ==
  /\ EdgesBetween(es, "constructs", owner, classId) # {}
  /\ \A n \in 1..Min(Len(t[i].args), Len(CtorParams(t, c))) :
       LabelledBetween(es, owner, classId,
                       buildDataflowLabel(CtorParams(t, c)[n], t[i].args[n],
                                          t[i].fault = "typestr")) # {}

\* C12: construction edges. For every construction new C(args) that walk
\* reaches and whose class C is a named class declared in the analyzed file,
\* with or without an explicit constructor, the graph has a constructs edge
\* from the current owner to the node of C and one dataflow edge per matched
\* (constructor parameter, argument) pair.
C12_ConstructsEdgeToClass ==
  ReturnedTree =>
    \A i \in CallSites(sf) :
      LET c == ClassOf(sf, i, sf[i].name)
          owner == walkOwner(sf, idByDeclPos, i)
      IN (/\ sf[i].kind = "NewExpression" /\ sf[i].form = "ident"
          /\ owner # "" /\ c # 0)
         => ConstructionEdges(sf, result.graph.edges, i, owner, c,
                              Get(idByDeclPos, Pos(sf, c)))

\* the declarations ds are overload signatures followed by an implementation
Overloaded(t, ds) ==
  /\ Len(ds) >= 2
  /\ \A k \in 1..Len(ds) :
       /\ t[ds[k]].kind = "FunctionDeclaration"
       /\ t[ds[k]].body <=> k = Len(ds)

\* C13: calls to an overloaded function. A call that walk reaches, to a
\* function the analyzed file declares with overload signatures followed by
\* an implementation, has a calls edge from the owner to the node of the
\* function and one dataflow edge per passed argument, whichever overload the
\* call resolves to.
C13_OverloadedCallEdges ==
  ReturnedTree =>
    \A i \in CallSites(sf) :
      LET ds == Lookup(sf, sf[i].name, Container(sf, i))
          owner == walkOwner(sf, idByDeclPos, i)
      IN (/\ sf[i].kind = "CallExpression" /\ sf[i].form = "ident"
          /\ owner # "" /\ Overloaded(sf, ds))
         => LET fn == Get(idByDeclPos, Pos(sf, ds[Len(ds)]))
            IN /\ EdgesBetween(result.graph.edges, "calls", owner, fn) # {}
               /\ Cardinality(EdgesBetween(result.graph.edges, "dataflow",
                                           owner, fn)) >= Len(sf[i].args)

----------------------------------------------------------------------------
(* C14, C15: the declarations of the entries of the calls list *)

\* C14: external calls. A call or construction whose resolved declaration
\* lies in a file of the standard library or of a dependency is counted in
\* an entry with isExternal = true and adds no edge; in every result, the
\* call or construction of an entry with isExternal = true has no edge of
\* any kind from its owner to a node of its declaration.
C14_ExternalHasNoEdge ==
  ReturnedTree =>
    /\ \A k \in 1..Len(result.calls) :
         (/\ result.calls[k].declFile # Null
          /\ isExternalFile(result.calls[k].declFile))
           => result.calls[k].isExternal
    /\ \A i \in CallSites(sf) :
         SiteItem(sf, i).isExternal =>
           \A k \in 1..Len(result.graph.edges) :
             ~ /\ result.graph.edges[k].source = walkOwner(sf, idByDeclPos, i)
               /\ result.graph.edges[k].target
                    = Get(idByDeclPos, SiteItem(sf, i).declPos)

\* the declaration the aggregation resolves the call or construction at
\* node i to, NoDecl when there is none
SiteDecl(t, i) ==
  FirstDecl(SignatureDecl(t, i, SiteKind(t, i)),
            pickBestDeclaration(t, SymbolDecls(t, i)))

\* the calls and constructions of the tree that have no declaration
Unresolved(t) == {i \in CallSites(t) : SiteDecl(t, i) = NoDecl}

\* declRange: null
NullRange == RangeOf(NullPos, NullPos)

\* C15: unresolved targets. A call or construction for which no declaration
\* is resolved is counted in an entry of its canonical name with declFile =
\* null, declRange = null and isExternal = false, which the aggregation
\* always holds and the calls list holds unless the cap of 60 has cut it; in
\* every entry of the calls list declFile is null exactly when declRange is
\* null, and isExternal = true implies declFile is not null.
C15_UnresolvedTargets ==
  ReturnedTree =>
    /\ \A names \in {[i \in Unresolved(sf) |-> SiteItem(sf, i).calleeName]} :
          \A i \in DOMAIN names :
            \E k \in 1..Len(map) :
              /\ map[k].calleeName = names[i]
              /\ map[k].declFile = Null
              /\ map[k].declRange = NullRange
              /\ ~map[k].isExternal
              /\ map[k].count
                   = Cardinality({j \in DOMAIN names : names[j] = names[i]})
              /\ Len(map) <= MaxCalls =>
                   \E j \in 1..Len(result.calls) :
                     result.calls[j] = Rest(map[k])
    /\ \A k \in 1..Len(result.calls) :
         /\ result.calls[k].declFile = Null
              <=> result.calls[k].declRange = NullRange
         /\ result.calls[k].isExternal => result.calls[k].declFile # Null

\* an entry without a declaration next to an entry of the library
C15_Witness ==
  /\ ReturnedTree
  /\ \E j, k \in 1..Len(result.calls) :
       /\ result.calls[j].declFile = Null /\ Unresolved(sf) # {}
       /\ result.calls[k].isExternal /\ result.calls[k].declFile = LibFile

----------------------------------------------------------------------------
(* C16, C17: imports and exports *)

\* the top-level statements of the given kind, in source order
TopLevel(t, kind) == Ascending({j \in Children(t, 1) : t[j].kind = kind})

\* the kind of import the clause of an import declaration makes
ImportKind(i) ==
  IF ~i.clause THEN "side-effect"
  ELSE IF i.bindings = "namespace" THEN "namespace"
  ELSE IF i.bindings = "named" THEN "named"
  ELSE IF i.name # "" THEN "default"
  ELSE "unknown"

\* C16: import classification. Every top-level import declaration yields
\* exactly one entry of imports, in source order, of kind side-effect without
\* an import clause, namespace with * as X, named with a { } list (also next
\* to a default name), default with a default name only, unknown otherwise;
\* a file that holds only import fs from "fs" gives the one entry (fs, [fs],
\* default), no exports, no calls and no node but the file root.
C16_ImportClassification ==
  ReturnedTree =>
    /\ LET decls == TopLevel(sf, "ImportDeclaration")
       IN /\ Len(result.imports) = Len(decls)
          /\ \A r \in 1..Len(decls) :
               /\ result.imports[r].source = sf[decls[r]].name
               /\ result.imports[r].kind = ImportKind(sf[decls[r]].imp)
    /\ sf = FileOf(<<sImport>>) =>
         /\ result.imports
              = <<[source |-> "fs", specifiers |-> <<"fs">>, kind |-> "default"]>>
         /\ result.exports = <<>> /\ result.calls = <<>>
         /\ Len(result.graph.nodes) = 1
         /\ result.graph.nodes[1].kind = "file"

\* two imports of different modules, the second a default name next to a
\* { } list
C16_Witness ==
  /\ ReturnedTree
  /\ Len(result.imports) = 2
  /\ result.imports[1].source # result.imports[2].source
  /\ result.imports[2].kind = "named"
  /\ sf[TopLevel(sf, "ImportDeclaration")[2]].imp.name # ""

\* C17: re-exports are recorded. Every top-level re-export, the named form
\* export { a as b } from ... and every export * ... form (export * as ns
\* from ... too), contributes at least one entry of exports, each of kind
\* unknown: a result has at least as many entries of kind unknown as the
\* file has re-exports, and only such entries when the file has nothing else.
C17_ReExportsRecorded ==
  ReturnedTree =>
    LET reexports == {j \in Children(sf, 1) :
                        sf[j].kind = "ExportDeclaration" /\ sf[j].name # ""}
        unknown == {k \in 1..Len(result.exports) :
                      result.exports[k].kind = "unknown"}
    IN /\ Cardinality(unknown) >= Cardinality(reexports)
       /\ reexports = Children(sf, 1) => Cardinality(unknown) = Len(result.exports)

----------------------------------------------------------------------------
(* C18: the canonical name of a member call *)

\* the type of the receiver has a symbol with a name that is not anonymous
Named(ty) == ty.sym # "" /\ ty.sym # "__type"

\* C18: callee normalization of recv.method. When the type of recv has a
\* symbol name the call is counted under TypeName.method; when it has none
\* (anonymous object type, primitive, any) it is counted under the source
\* text of the receiver followed by .method.
C18_MemberCallName ==
  ReturnedTree =>
    \A i \in CallSites(sf) :
      (sf[i].kind = "CallExpression" /\ sf[i].form = "member") =>
        \E k \in 1..Len(map) :
          map[k].calleeName
            = (IF Named(sf[i].recv) THEN sf[i].recv.sym ELSE sf[i].recv.text)
                \o "." \o sf[i].name

----------------------------------------------------------------------------
(* C20: the order of the calls list *)

\* for every entry of the calls list cs, the first node in pre-order whose
\* call or construction the entry counts
FirstSeen(t, cs) ==
  LET triples == [i \in CallSites(t) |-> Triple(SiteItem(t, i))]
  IN [k \in 1..Len(cs) |->
        LET counted == {i \in DOMAIN triples : triples[i] = RecordTriple(cs[k])}
        IN CHOOSE i \in counted : \A j \in counted : i <= j]

\* the entries of cs are in the order (count descending, seen ascending)
OrderedBy(cs, seen) ==
  \A j, k \in 1..Len(cs) :
    j < k => \/ cs[j].count > cs[k].count
             \/ cs[j].count = cs[k].count /\ seen[j] < seen[k]

\* C20: tie order in the calls list. Among entries of equal count, the
\* entries are in the order in which the pre-order walk of the tree first
\* sees them (an outer call before the calls in its arguments): the list is
\* ordered by (count descending, first seen ascending).
C20_TieOrderFirstSeen ==
  ReturnedTree =>
    \A seen \in {FirstSeen(sf, result.calls)} : OrderedBy(result.calls, seen)

\* two entries of equal count, the first for a call that holds the call of
\* the second in its arguments
C20_Witness ==
  /\ ReturnedTree
  /\ Len(result.calls) >= 2
  /\ result.calls[1].count = result.calls[2].count
  /\ \E seen \in {FirstSeen(sf, result.calls)} :
       IsAncestor(sf, seen[1], seen[2])

----------------------------------------------------------------------------
(* C22..C24: owners, edges and nodes *)

\* node a is a named function declaration with a body, or a method with a
\* body and an identifier for a name in a named class declaration
OwnsBody(t, a) ==
  \/ t[a].kind = "FunctionDeclaration" /\ t[a].name # "" /\ t[a].body
  \/ /\ t[a].kind = "MethodDeclaration" /\ t[a].name # "" /\ t[a].body
     /\ t[a].nameKind = "Identifier"
     /\ t[a].parent # 0
     /\ t[t[a].parent].kind = "ClassDeclaration" /\ t[t[a].parent].name # ""

RECURSIVE InnermostOwner(_, _, _)
\* the innermost of node a and its ancestors that owns a body which holds
\* node `below`, a child of a; 0 when there is none
InnermostOwner(t, a, below) ==
  IF a = 0 THEN 0
  ELSE IF OwnsBody(t, a) /\ t[below].slot = "body" THEN a
  ELSE InnermostOwner(t, t[a].parent, a)

\* the id of the node of the declaration at node a, of the file for 0
OwnerId(t, a) ==
  IF a = 0 THEN fileNodeId
  ELSE IF t[a].kind = "FunctionDeclaration"
    THEN mkId("function", t[a].name, Pos(t, a))
  ELSE mkId("method", t[t[a].parent].name \o "." \o t[a].name, Pos(t, a))

\* the owner the call or construction at node i is attributed to
ExpectedOwner(t, i) == OwnerId(t, InnermostOwner(t, t[i].parent, i))

\* the node the call or construction at node i targets, "" for none
SiteTarget(t, ids, i) == Get(ids, resolveTargetDeclPos(t, i, SiteKind(t, i)))

\* C22: owner attribution. The source of every calls, constructs and
\* dataflow edge is the node of the innermost named function declaration
\* with a body, or method of a named class, whose body holds the call or
\* construction the edge is for, or the file root when there is none: arrow
\* functions, constructors, blocks and statements do not change the owner.
C22_OwnerAttribution ==
  ReturnedTree =>
    \A k \in 1..Len(result.graph.edges) :
      \E i \in CallSites(sf) :
        /\ ExpectedOwner(sf, i) = result.graph.edges[k].source
        /\ SiteTarget(sf, idByDeclPos, i) = result.graph.edges[k].target

\* an edge for a call in a constructor or an arrow function, from the owner
\* around it, and an edge from a function or a method
C22_Witness ==
  /\ ReturnedTree
  /\ \E k \in 1..Len(result.graph.edges) : \E i \in CallSites(sf) :
       /\ sf[sf[i].parent].kind \in {"Constructor", "ArrowFunction"}
       /\ ExpectedOwner(sf, i) = result.graph.edges[k].source
       /\ SiteTarget(sf, idByDeclPos, i) = result.graph.edges[k].target
  /\ \E k \in 1..Len(result.graph.edges) :
       result.graph.edges[k].source # fileNodeId

\* C23: edge completeness. For every call expression of the analyzed file,
\* wherever it is in the tree (top level, body of a function or a method,
\* argument of a call, initializer of a parameter), whose resolved
\* declaration is in the analyzed file at a position that has a node, the
\* result has a calls edge from the owner of the call to that node.
C23_EveryCallHasItsEdge ==
  ReturnedTree =>
    \A i \in CallSites(sf) :
      (sf[i].kind = "CallExpression" /\ SiteTarget(sf, idByDeclPos, i) # "") =>
        EdgesBetween(result.graph.edges, "calls", ExpectedOwner(sf, i),
                     SiteTarget(sf, idByDeclPos, i)) # {}

\* the ids of the nodes the declarations of the tree are to get: the named
\* top-level function declarations with a body, the named class
\* declarations, and their methods with a body and an identifier for a name
DeclaredIds(t) ==
  {OwnerId(t, a) : a \in {d \in Idx(t) : OwnsBody(t, d) /\
                            (t[d].kind = "FunctionDeclaration" => t[d].parent = 1)}}
    \cup {mkId("class", t[c].name, Pos(t, c)) :
            c \in {d \in Idx(t) : t[d].kind = "ClassDeclaration" /\ t[d].name # ""}}

\* C24: node set. The nodes of a result are exactly the file root, one
\* function node per named top-level function declaration with a body, one
\* class node per named class declaration and one method node Class.method
\* per method with a body and an identifier name of a named class; no other
\* declaration gets a node and no declaration gets two.
C24_NodeSet ==
  ReturnedTree =>
    /\ NodeIds(result) = {fileNodeId} \cup DeclaredIds(sf)
    /\ Len(result.graph.nodes) = Cardinality(NodeIds(result))

----------------------------------------------------------------------------
(* C25: the best declaration *)

\* the declarations ds that have a body
WithBody(t, ds) == {k \in 1..Len(ds) : ds[k].tree # 0 /\ t[ds[k].tree].body}

\* C25: best declaration. Whenever the declarations of the symbol of a call
\* are overload signatures without a body and one declaration with a body,
\* the declaration pickBestDeclaration chooses is the one with the body.
C25_ImplementationPreferred ==
  ReturnedTree =>
    \A i \in CallSites(sf) :
      \A ds \in {SymbolDecls(sf, i)} :
        (Len(ds) >= 2 /\ Cardinality(WithBody(sf, ds)) = 1)
          => \A best \in {pickBestDeclaration(sf, ds)} :
               best.tree # 0 /\ sf[best.tree].body

----------------------------------------------------------------------------
(* C26, C27: the dataflow edges *)

\* the dataflow edges of the result, by index in the edges list
DataflowEdges ==
  {k \in 1..Len(result.graph.edges) : result.graph.edges[k].kind = "dataflow"}

\* the index of the first separator of a dataflow label
ArrowAt(label) ==
  CHOOSE k \in 1..Len(label) :
    /\ SubSeq(label, k, k + Len(Arrow) - 1) = Arrow
    /\ \A j \in 1..(k - 1) : SubSeq(label, j, j + Len(Arrow) - 1) # Arrow

\* a side of a label is collapsed, at most max long, and ends in the
\* ellipsis when it holds one
SideClamped(side, max) ==
  /\ Len(side) <= max
  /\ \A k \in 1..Len(side) :
       IsSpace(SubSeq(side, k, k))
         => /\ SubSeq(side, k, k) = " "
            /\ k < Len(side) => ~IsSpace(SubSeq(side, k + 1, k + 1))
  /\ (\E k \in 1..Len(side) : SubSeq(side, k, k) = Ellipsis)
       => SubSeq(side, Len(side), Len(side)) = Ellipsis

\* C26: dataflow label bound. In every dataflow edge label, the side of the
\* parameter and the side of the argument, each with its type suffix, are
\* whitespace-collapsed, no longer than the maximum of the side (60 for the
\* parameter, 80 for the argument) and end in the ellipsis when truncated.
C26_LabelSidesClamped ==
  ReturnedTree =>
    \A k \in DataflowEdges :
      \A label \in {result.graph.edges[k].label} :
        \A at \in {ArrowAt(label)} :
          /\ SideClamped(SubSeq(label, 1, at - 1), ParamClamp)
          /\ SideClamped(SubSeq(label, at + Len(Arrow), Len(label)), ArgClamp)

\* C27: every dataflow edge accompanies a call or construction. Whenever a
\* result holds a dataflow edge from s to t, it holds a calls edge or a
\* constructs edge from s to t earlier in the edges list.
C27_DataflowFollowsCallEdge ==
  ReturnedTree =>
    \A es \in {result.graph.edges} :
      \A k \in DataflowEdges :
        \E j \in 1..(k - 1) :
          /\ es[j].kind \in {"calls", "constructs"}
          /\ es[j].source = es[k].source
          /\ es[j].target = es[k].target

\* a result with two dataflow edges after the calls edge of their call
C27_Witness ==
  /\ ReturnedTree
  /\ \E k \in DataflowEdges : \E l \in DataflowEdges : \E j \in 1..(k - 1) :
       /\ k < l
       /\ result.graph.edges[j].kind = "calls"
       /\ \A m \in {k, l} :
            /\ result.graph.edges[j].source = result.graph.edges[m].source
            /\ result.graph.edges[j].target = result.graph.edges[m].target

----------------------------------------------------------------------------
(* C21, C28, C29: the host of a panel *)

\* the editor getEditor() returns now
Editor == getEditor(lastTextEditor, activeTextEditor)

\* the type of the answer to a request
AnswerTo(type) ==
  CASE type = "requestActiveFile" -> "activeFile"
    [] type = "requestSelection" -> "selection"
    [] type = "analyzeActiveFile" -> "analysisResult"

\* C21: request/response protocol of the host. Every message of type
\* requestActiveFile, requestSelection or analyzeActiveFile received from
\* the webview is answered by exactly one message posted to the panel, of
\* type activeFile, selection or analysisResult respectively, whose payload
\* is null when no editor is known.
C21_EveryRequestAnswered ==
  event.name \in {"requestActiveFile", "requestSelection", "analyzeActiveFile"}
    => /\ Len(posted) = 1
       /\ posted[1].type = AnswerTo(event.name)
       /\ Editor = NoEditor => posted[1].payload = NullPayload

\* the handler that ran last has called scheduleAnalysis
Triggered ==
  \/ event.name = "activeEditor"
  \/ event.name \in {"change", "save"} /\ event.doc = Editor

\* the state of the timers of the panel: at most one waits, it is the one
\* armed last, after a trigger it waits with the delay of the trigger, and
\* after it ran none waits and the text analyzed is the text of the document
TimerDebounced ==
  /\ Cardinality(timers) <= 1
  /\ \A t \in timers : t.id = analysisTimer
  /\ Triggered =>
       timers = {[id |-> analysisTimer,
                  delay |-> IF event.name = "change" THEN EditDelay ELSE 0]}
  /\ event.name = "timer" =>
       /\ timers = {}
       /\ Editor # NoEditor => analyzed = <<docText[Editor]>>

\* C28: debounced auto-analysis. At most one auto-analysis timer of the
\* panel is pending at any time; every trigger (change of the active editor
\* and save with delay 0, edit of the active document with delay 350)
\* cancels the pending timer before it arms a new one, so the triggers that
\* arrive while a timer is pending are followed by one run of the analysis,
\* after the last of them, on the text the document holds when the timer
\* fires.
C28_DebouncedAutoAnalysis ==
  /\ []TimerDebounced
  /\ (timers # {}) ~> (event.name = "timer" /\ timers = {})

\* an edit has replaced the timer armed before by one of delay 350
C28_Witness ==
  /\ event.name = "change" /\ event.doc = Editor
  /\ analysisTimer = 2
  /\ timers = {[id |-> 2, delay |-> EditDelay]}

\* C29: no work after disposal. Once the panel has been disposed, no
\* auto-analysis runs for it and no analysisResult message is posted to it.
C29_NoWorkAfterDisposal ==
  (disposed /\ event.name = "timer") => (analyzed = <<>> /\ posted = <<>>)

----------------------------------------------------------------------------
(* C30: the node the Inspector shows *)

\* the nodes of the graph of the analysis received last that have the
\* selected id
SelectedInGraph ==
  {k \in 1..Len(graphOf(analysis).nodes) :
     graphOf(analysis).nodes[k].id = selectedNodeId}

\* C30: the selection of the webview is derived, never stale. The node shown
\* in the Inspector is non-null exactly if the graph of the analysis
\* received last holds a node with the selected id, and then it is that
\* node; a received message never changes the selected id, so a node that
\* comes back in a later result is shown again without a click.
C30_SelectionDerived ==
  /\ [](/\ SelectedInGraph = {} => selectedNode = NullPayload
        /\ \A k \in SelectedInGraph : selectedNode = graphOf(analysis).nodes[k])
  /\ [][analysis' # analysis => selectedNodeId' = selectedNodeId]_vars

\* a node is selected that the graph received last does not hold, and
\* nothing is shown
C30_Witness ==
  /\ selectedNodeId # Null /\ hasGraphData(analysis)
  /\ SelectedInGraph = {}
  /\ selectedNode = NullPayload

----------------------------------------------------------------------------
(* C19: the dialect *)

\* the dialects that carry type annotations
TypedKinds == {"TS", "TSX"}

\* the file name ends in one of the extensions the program takes in
RecognizedExtension(f) ==
  \E e \in SupportedExtensions : EndsWith(toLowerCase(f), e)

\* the dialect has been picked
Picked == pc = "program"

\* C19, as stated: the dialect picked is one of the four, and for a file name
\* without a recognized extension it is a typed one whatever the languageId
C19_UnknownExtensionTyped ==
  Picked =>
    /\ scriptKind \in ScriptKinds
    /\ ~RecognizedExtension(fileName) => scriptKind \in TypedKinds

\* C19, amended: the dialect picked is one of the four, and for a file name
\* without a recognized extension it is a typed one unless the languageId is
\* javascript or javascriptreact
C19_UnknownExtensionTypedByDefault ==
  Picked =>
    /\ scriptKind \in ScriptKinds
    /\ (/\ ~RecognizedExtension(fileName)
        /\ languageId \notin {"javascript", "javascriptreact"})
       => scriptKind \in TypedKinds

\* a document without a recognized extension, in a language that names no
\* dialect, has got the typed dialect
C19_Witness ==
  /\ Picked
  /\ ~RecognizedExtension(fileName)
  /\ languageId = "plaintext"
  /\ scriptKind = "TS"

====
